---- MODULE Spec2Model ----
(***************************************************************************)
(* State-machine model of the cms-dynamic-database data-access layer:      *)
(* the collection catalog (CollectionService), the document store, batch   *)
(* engine, query translator and search engine (DocumentService), the       *)
(* MongoDB variant (MongoDBService) and the service facade                 *)
(* (FirebaseService: connect / disconnect).                                *)
(*                                                                         *)
(* Strings are sequences of character codes, so that lower-casing,         *)
(* trimming and the lexicographic order the backend sorts by are computed. *)
(* A Firestore database is a set of stored documents [path, id, data]; the *)
(* catalog is the documents under the path "collections".  A MongoDB       *)
(* database is the sequence of inserted documents.  An instant (a Date, a  *)
(* Firestore Timestamp) is a clock value.                                  *)
(*                                                                         *)
(* Specifications:                                                         *)
(*   Spec        catalog and document calls, one at a time, connected      *)
(*   SpecDoc     document store on one collection, the clock running       *)
(*   SpecFacade  connect / disconnect of several callers, interleaved at   *)
(*               their awaits, with data calls in between                  *)
(*   SpecBatch   batchCreateDocuments of the Firestore and MongoDB         *)
(*               services, with rejected writes                            *)
(*   SpecQuery   one query or search call over every small collection      *)
(*   SpecCatalog catalog create (with seeds), list and delete              *)
(*   SpecUpdate  document create, update and batch update on one           *)
(*               collection, the clock running                             *)
(*   SpecConnect connect / disconnect of the facade and connect of         *)
(*               MongoDBService                                            *)
(*   SpecCreate  createCollection calls of several callers, interleaved    *)
(*               at their awaits                                           *)
(*   SpecCatalogUpdate  catalog create, update and get                     *)
(*   SpecUpdateOverlap  updateDocument calls of several callers,           *)
(*               interleaved at their awaits, the clock running            *)
(*   SpecPeer    SpecFacade with a second facade instance in the process   *)
(*   SpecDeleteOverlap  deleteCollection calls interleaved at their awaits *)
(*               with createCollection and createDocument                  *)
(*   SpecFlag    connect / disconnect of the facade, every awaited call    *)
(*               settling (weak fairness of the continuations)             *)
(***************************************************************************)
EXTENDS Integers, Sequences, FiniteSets, TLC

VARIABLES
    store,        \* Firestore: set of [path, id, data]
    mongo,        \* MongoDB: the inserted [coll, doc], in insertion order
    mongoDb,      \* MongoDBService.db
    now,          \* the wall clock read by new Date()
    colDb,        \* CollectionService.db (process-wide singleton)
    docDb,        \* DocumentService.db (process-wide singleton)
    app,          \* FirebaseService.app: the app of the session, or none
    db,           \* FirebaseService.db
    auth,         \* FirebaseService.auth
    isConnecting, \* FirebaseService.isConnecting
    pc,           \* per caller: the connect / disconnect call it is inside
    live,         \* the apps initialized and not deleted
    created,      \* the number of apps initialized so far
    last,         \* the call that completed last: [op, in, out, err]
    prev,         \* the call that completed before it, where recorded
    recording,    \* whether this behaviour records prev
    peer,         \* the app of another FirebaseService instance, or none
    svc           \* per caller: the service call it is suspended in

facadeVars == <<app, db, auth, isConnecting, pc, live, created>>

mongoVars == <<mongo, mongoDb>>

vars == <<store, mongoVars, now, colDb, docDb, facadeVars, last, prev, recording,
          peer, svc>>

----------------------------------------------------------------------------
(* Bounds of the model *)

MaxAutoId == 2
MaxStored == 2
MaxClock == 1
MaxCallers == 2
MaxApps == 2
MaxDocs == 5
MaxWritten == 1

----------------------------------------------------------------------------
(* Strings *)

\* the names callers pass: "a", " A", "b"
Names == {<<97>>, <<32, 65>>, <<98>>}

ToLowerCaseChar(c) == IF c \in 65..90 THEN c + 32 ELSE c

ToLowerCase(s) == [i \in 1..Len(s) |-> ToLowerCaseChar(s[i])]

IsWhiteSpace(c) == c \in {9, 10, 11, 12, 13, 32}

RECURSIVE TrimStart(_)
TrimStart(s) ==
    IF s # <<>> /\ IsWhiteSpace(Head(s)) THEN TrimStart(Tail(s)) ELSE s

RECURSIVE TrimEnd(_)
TrimEnd(s) ==
    IF s # <<>> /\ IsWhiteSpace(s[Len(s)])
    THEN TrimEnd(SubSeq(s, 1, Len(s) - 1))
    ELSE s

Trim(s) == TrimEnd(TrimStart(s))

\* the name lower-cased but not trimmed
NormalizeNameNoTrim(name) == ToLowerCase(name)

\* collectionData.name.toLowerCase().trim()
NormalizeName(name) == Trim(ToLowerCase(name))

\* s < t in the order the backend sorts strings by
RECURSIVE StrLess(_, _)
StrLess(s, t) ==
    IF t = <<>> THEN FALSE
    ELSE IF s = <<>> THEN TRUE
    ELSE IF Head(s) # Head(t) THEN Head(s) < Head(t)
    ELSE StrLess(Tail(s), Tail(t))

StrLeq(s, t) == s = t \/ StrLess(s, t)

----------------------------------------------------------------------------
(* Identities *)

\* "collections"
COLLECTIONS_PATH == <<99, 111, 108, 108, 101, 99, 116, 105, 111, 110, 115>>

\* the identifiers doc(collection(...)) draws: "1", "2", ...
AutoIds == {<<48 + k>> : k \in 1..MaxAutoId}

\* the values Math.random().toString(36).substring(2, 9) is drawn from: "x", "y"
ShortIds == {<<120>>, <<121>>}

generateCollectionId(name, shortId) == ToLowerCase(name) \o <<95>> \o shortId

NoDb == 0

\* a handle whose app has been deleted: the SDK rejects every call on it
Terminated(handle) == handle \notin live

----------------------------------------------------------------------------
(* Firestore *)

\* { ...a, ...b }
Merge(a, b) ==
    [k \in DOMAIN a \cup DOMAIN b |-> IF k \in DOMAIN b THEN b[k] ELSE a[k]]

\* getDocs(collection(db, path)): the documents of a path
DocsAt(st, path) == {d \in st : d.path = path}

\* getDoc(doc(db, path, id)): the snapshot, a set with at most one document
Snap(st, path, id) == {d \in st : d.path = path /\ d.id = id}

\* a snapshot's documents in the backend's order (by document id)
RECURSIVE InIdOrder(_)
InIdOrder(ds) ==
    IF ds = {} THEN <<>>
    ELSE LET d == CHOOSE x \in ds : \A y \in ds : StrLeq(x.id, y.id)
         IN <<d>> \o InIdOrder(ds \ {d})

SetDocDropped(st, path, id, data) == st

\* setDoc(ref, data)
SetDoc(st, path, id, data) ==
    (st \ Snap(st, path, id)) \cup {[path |-> path, id |-> id, data |-> data]}

\* updateDoc(ref, data) on an existing document: merges the fields
UpdateDoc(st, path, id, data) ==
    {IF d.path = path /\ d.id = id
        THEN [d EXCEPT !.data = Merge(d.data, data)]
        ELSE d : d \in st}

\* doc(collection(db, path)): a fresh auto-generated id
FreshIds(st, path) == {i \in AutoIds : Snap(st, path, i) = {}}

\* the value serializeForFirestore returns for a definition of plain fields
serializeForFirestore(data) == data

----------------------------------------------------------------------------
(* Responses *)

NoCall == [op |-> "none", in |-> <<>>, out |-> <<>>, err |-> "ok"]

Ok(op, in, out) == [op |-> op, in |-> in, out |-> out, err |-> "ok"]

Err(op, in, e) == [op |-> op, in |-> in, out |-> <<>>, err |-> e]

Respond(r) ==
    /\ last' = r
    /\ prev' = IF recording THEN last ELSE prev
    /\ UNCHANGED recording

----------------------------------------------------------------------------
(* CollectionService: the collection catalog *)

\* data.id || doc.id
IdOr(d) ==
    IF "id" \in DOMAIN d.data /\ d.data.id # <<>> THEN d.data.id ELSE d.id

\* the definitions stored under "collections"
Definitions(st) == DocsAt(st, COLLECTIONS_PATH)

\* query(collection(db, "collections"), where("name", "==", normalizedName))
ExistingByName(st, normalizedName) ==
    {d \in Definitions(st) : "name" \in DOMAIN d.data /\ d.data.name = normalizedName}

\* { id: doc.data().id || doc.id, fid: doc.id, ...doc.data() }
DefinitionView(d) == Merge([id |-> IdOr(d), fid |-> d.id], d.data)

\* { ...existingData, id: existingData.id || existingDoc.id, fid: existingDoc.id, name }
ExistingView(d, normalizedName) ==
    Merge(d.data, [id |-> IdOr(d), fid |-> d.id, name |-> normalizedName])

NewCollection(collectionData, generatedId, fid, normalizedName, timestamp) ==
    Merge(collectionData,
          [id |-> generatedId, fid |-> fid, name |-> normalizedName,
           createdAt |-> timestamp, updatedAt |-> timestamp])

\* the sequences of n distinct fresh ids of a path
FreshIdSeqs(st, path, n) ==
    {q \in [1..n -> FreshIds(st, path)] : \A i, j \in 1..n : q[i] = q[j] => i = j}

\* the writes batch.set(docRef, {...item, fid, createdAt, updatedAt}) queues
SeedWrites(path, items, ids, timestamp) ==
    {[path |-> path, id |-> ids[i],
      data |-> Merge(items[i], [fid |-> ids[i], createdAt |-> timestamp,
                                 updatedAt |-> timestamp])] : i \in 1..Len(items)}

\* batch.commit() of set and delete writes: all of them or none
CommitBatch(st, sets, deletes) ==
    ({d \in st : \A w \in sets : ~(w.path = d.path /\ w.id = d.id)} \ deletes) \cup sets

getAllCollections ==
    /\ IF colDb = NoDb
       THEN Respond(Err("getAllCollections", <<>>, "NotConnected"))
       ELSE IF Terminated(colDb)
       THEN Respond(Err("getAllCollections", <<>>, "BackendFailure"))
       ELSE Respond(Ok("getAllCollections", <<>>,
                       [all |-> {DefinitionView(d) : d \in Definitions(store)}]))
    /\ UNCHANGED <<mongoVars, peer, svc, store, now, colDb, docDb, facadeVars>>

getCollection(collectionId) ==
    /\ IF colDb = NoDb
       THEN Respond(Err("getCollection", collectionId, "NotConnected"))
       ELSE IF Terminated(colDb)
       THEN Respond(Err("getCollection", collectionId, "BackendFailure"))
       ELSE LET docSnap == Snap(store, COLLECTIONS_PATH, collectionId)
            IN IF docSnap = {}
               THEN Respond(Err("getCollection", collectionId, "NotFound"))
               ELSE Respond(Ok("getCollection", collectionId,
                               DefinitionView(CHOOSE d \in docSnap : TRUE)))
    /\ UNCHANGED <<mongoVars, peer, svc, store, now, colDb, docDb, facadeVars>>

createCollection(collectionData, mockData, failAt) ==
    LET in == collectionData.name
        normalizedName == NormalizeName(collectionData.name)
        existing == ExistingByName(store, normalizedName)
    IN
    /\ IF colDb = NoDb
       THEN /\ Respond(Err("createCollection", in, "NotConnected"))
            /\ UNCHANGED store
       ELSE IF Terminated(colDb)
       THEN /\ Respond(Err("createCollection", in, "BackendFailure"))
            /\ UNCHANGED store
       ELSE IF existing # {}
       THEN /\ Respond(Ok("createCollection", in,
                          [existed |-> TRUE,
                           def |-> ExistingView(InIdOrder(existing)[1],
                                                normalizedName)]))
            /\ UNCHANGED store
       ELSE IF failAt = "setDoc"
       THEN /\ Respond(Err("createCollection", in, "BackendFailure"))
            /\ UNCHANGED store
       ELSE \E shortId \in ShortIds, fid \in FreshIds(store, COLLECTIONS_PATH) :
            LET generatedId == generateCollectionId(normalizedName, shortId)
                newCollection ==
                    NewCollection(collectionData, generatedId, fid,
                                  normalizedName, now)
                withDef == SetDoc(store, COLLECTIONS_PATH, fid,
                                  serializeForFirestore(newCollection))
            IN IF Len(mockData) > 0 /\ failAt = "commit"
               THEN /\ Respond(Err("createCollection", in, "BackendFailure"))
                    /\ store' = withDef
               ELSE \E seedIds \in FreshIdSeqs(withDef, generatedId, Len(mockData)) :
                    /\ Respond(Ok("createCollection", in,
                                  [existed |-> FALSE, def |-> newCollection]))
                    /\ store' = CommitBatch(withDef,
                                    SeedWrites(generatedId, mockData, seedIds, now),
                                    {})
    /\ Cardinality(store') <= MaxStored
    /\ UNCHANGED <<mongoVars, peer, svc, now, colDb, docDb, facadeVars>>

updateCollection(id, collection) ==
    LET in == [id |-> id, collection |-> collection]
        updateData == Merge(collection, [updatedAt |-> now])
        after == UpdateDoc(store, COLLECTIONS_PATH, id,
                           serializeForFirestore(updateData))
        updated == CHOOSE d \in Snap(after, COLLECTIONS_PATH, id) : TRUE
    IN
    /\ IF colDb = NoDb
       THEN /\ Respond(Err("updateCollection", in, "NotConnected"))
            /\ UNCHANGED store
       ELSE IF Terminated(colDb)
       THEN /\ Respond(Err("updateCollection", in, "BackendFailure"))
            /\ UNCHANGED store
       ELSE IF Snap(store, COLLECTIONS_PATH, id) = {}
       THEN /\ Respond(Err("updateCollection", in, "NotFound"))
            /\ UNCHANGED store
       ELSE /\ Respond(Ok("updateCollection", in,
                          Merge([id |-> updated.id], updated.data)))
            /\ store' = after
    /\ UNCHANGED <<mongoVars, peer, svc, now, colDb, docDb, facadeVars>>

\* getDocs(collection(this.db, collectionData.id))
DataSnapshotWrongSpace(st, collectionData) == DocsAt(st, collectionData.fid)

DataSnapshot(st, collectionData) == DocsAt(st, collectionData.id)

DeleteWritesDataOnly(dataSnapshot, collectionDoc) == dataSnapshot

\* the deletes queued on the batch: batch.delete(doc.ref) for every scanned
\* document, then batch.delete(collectionRef)
DeleteWrites(dataSnapshot, collectionDoc) == dataSnapshot \cup collectionDoc

deleteCollection(collectionId, commitFails) ==
    LET collectionDoc == Snap(store, COLLECTIONS_PATH, collectionId)
        collectionData == (CHOOSE d \in collectionDoc : TRUE).data
        dataSnapshot == DataSnapshot(store, collectionData)
    IN
    /\ IF colDb = NoDb
       THEN /\ Respond(Err("deleteCollection", collectionId, "NotConnected"))
            /\ UNCHANGED store
       ELSE IF Terminated(colDb)
       THEN /\ Respond(Err("deleteCollection", collectionId, "BackendFailure"))
            /\ UNCHANGED store
       ELSE IF collectionDoc = {}
       THEN /\ Respond(Err("deleteCollection", collectionId, "NotFound"))
            /\ UNCHANGED store
       ELSE IF commitFails
       THEN /\ Respond(Err("deleteCollection", collectionId, "BackendFailure"))
            /\ UNCHANGED store
       ELSE /\ Respond(Ok("deleteCollection", collectionId,
                          [id |-> collectionData.id,
                           scanned |-> Cardinality(dataSnapshot)]))
            /\ store' = CommitBatch(store, {}, DeleteWrites(dataSnapshot, collectionDoc))
    /\ UNCHANGED <<mongoVars, peer, svc, now, colDb, docDb, facadeVars>>

----------------------------------------------------------------------------
(* DocumentService: the document store *)

getDocument(collectionId, documentId) ==
    LET in == [collectionId |-> collectionId, documentId |-> documentId]
        docSnap == Snap(store, collectionId, documentId)
    IN
    /\ IF docDb = NoDb
       THEN Respond(Err("getDocument", in, "NotConnected"))
       ELSE IF Terminated(docDb)
       THEN Respond(Err("getDocument", in, "BackendFailure"))
       ELSE Respond(Ok("getDocument", in, [doc |-> {d.data : d \in docSnap}]))
    /\ UNCHANGED <<mongoVars, peer, svc, store, now, colDb, docDb, facadeVars>>

DocumentDataStampsOnly(data, fid, timestamp) ==
    [fid |-> fid, createdAt |-> timestamp, updatedAt |-> timestamp]

\* { ...data, fid: docRef.id, createdAt: timestamp, updatedAt: timestamp }
DocumentData(data, fid, timestamp) ==
    Merge(data, [fid |-> fid, createdAt |-> timestamp, updatedAt |-> timestamp])

createDocument(collectionId, data, setFails) ==
    LET in == [collectionId |-> collectionId, data |-> data]
    IN
    /\ IF docDb = NoDb
       THEN /\ Respond(Err("createDocument", in, "NotConnected"))
            /\ UNCHANGED store
       ELSE IF Terminated(docDb)
       THEN /\ Respond(Err("createDocument", in, "BackendFailure"))
            /\ UNCHANGED store
       ELSE IF setFails
       THEN /\ Respond(Err("createDocument", in, "BackendFailure"))
            /\ UNCHANGED store
       ELSE \E fid \in FreshIds(store, collectionId) :
            LET documentData == DocumentData(data, fid, now)
            IN /\ Respond(Ok("createDocument", in,
                             Merge([fid |-> fid], documentData)))
               /\ store' = SetDoc(store, collectionId, fid, documentData)
    /\ Cardinality(store') <= MaxStored
    /\ UNCHANGED <<mongoVars, peer, svc, now, colDb, docDb, facadeVars>>

\* const { fid, ...updateData } = data
WithoutFid(data) == [k \in DOMAIN data \ {"fid"} |-> data[k]]

updateDocument(collectionId, documentId, data) ==
    LET in == [collectionId |-> collectionId, documentId |-> documentId,
               data |-> data]
        finalUpdateData == Merge(WithoutFid(data), [updatedAt |-> now])
        after == UpdateDoc(store, collectionId, documentId, finalUpdateData)
        updated == CHOOSE d \in Snap(after, collectionId, documentId) : TRUE
    IN
    /\ IF docDb = NoDb
       THEN /\ Respond(Err("updateDocument", in, "NotConnected"))
            /\ UNCHANGED store
       ELSE IF documentId = <<>>
       THEN /\ Respond(Err("updateDocument", in, "InvalidArgument"))
            /\ UNCHANGED store
       ELSE IF Terminated(docDb)
       THEN /\ Respond(Err("updateDocument", in, "BackendFailure"))
            /\ UNCHANGED store
       ELSE IF Snap(store, collectionId, documentId) = {}
       THEN /\ Respond(Err("updateDocument", in, "NotFound"))
            /\ UNCHANGED store
       ELSE /\ Respond(Ok("updateDocument", in,
                          Merge([fid |-> updated.id], updated.data)))
            /\ store' = after
    /\ UNCHANGED <<mongoVars, peer, svc, now, colDb, docDb, facadeVars>>

\* the documentData of every item: { ...data, fid: docRef.id, createdAt, updatedAt }
BatchResults(documents, ids, timestamp) ==
    [i \in 1..Len(documents) |-> DocumentData(documents[i], ids[i], timestamp)]

\* the writes batch.set(docRef, documentData) queues
BatchWrites(path, results) ==
    {[path |-> path, id |-> results[i].fid, data |-> results[i]] :
        i \in 1..Len(results)}

batchCreateDocuments(collectionId, documents, commitFails) ==
    LET in == [collectionId |-> collectionId, documents |-> documents]
    IN
    /\ IF docDb = NoDb
       THEN /\ Respond(Err("batchCreateDocuments", in, "NotConnected"))
            /\ UNCHANGED store
       ELSE IF Terminated(docDb) \/ commitFails
       THEN /\ Respond(Err("batchCreateDocuments", in, "BackendFailure"))
            /\ UNCHANGED store
       ELSE \E ids \in FreshIdSeqs(store, collectionId, Len(documents)) :
            LET results == BatchResults(documents, ids, now)
            IN /\ Respond(Ok("batchCreateDocuments", in, results))
               /\ store' = CommitBatch(store, BatchWrites(collectionId, results), {})
    /\ Cardinality(store') <= MaxStored
    /\ UNCHANGED <<mongoVars, peer, svc, now, colDb, docDb, facadeVars>>

\* { ...data, updatedAt: timestamp } of every item
BatchUpdateData(documents, timestamp) ==
    [i \in 1..Len(documents) |->
        Merge(documents[i].data, [updatedAt |-> timestamp])]

UnresolvedIdsNone(st, path, documents) == {}

\* the ids of the batch that name no stored document: batch.update of one of
\* them makes the commit fail
UnresolvedIds(st, path, documents) ==
    {documents[i].id : i \in {j \in 1..Len(documents) :
                                Snap(st, path, documents[j].id) = {}}}

\* the batch.update writes applied in the order they were queued
RECURSIVE ApplyUpdates(_, _, _, _)
ApplyUpdates(st, path, documents, updateData) ==
    IF documents = <<>> THEN st
    ELSE ApplyUpdates(UpdateDoc(st, path, documents[1].id, updateData[1]),
                      path, Tail(documents), Tail(updateData))

batchUpdateDocuments(collectionId, documents, commitFails) ==
    LET in == [collectionId |-> collectionId, documents |-> documents]
        updateData == BatchUpdateData(documents, now)
        results == [i \in 1..Len(documents) |->
                        Merge([id |-> documents[i].id], updateData[i])]
    IN
    /\ IF docDb = NoDb
       THEN /\ Respond(Err("batchUpdateDocuments", in, "NotConnected"))
            /\ UNCHANGED store
       ELSE IF Terminated(docDb) \/ commitFails
       THEN /\ Respond(Err("batchUpdateDocuments", in, "BackendFailure"))
            /\ UNCHANGED store
       ELSE IF UnresolvedIds(store, collectionId, documents) # {}
       THEN /\ Respond(Err("batchUpdateDocuments", in, "NotFound"))
            /\ UNCHANGED store
       ELSE /\ Respond(Ok("batchUpdateDocuments", in, results))
            /\ store' = ApplyUpdates(store, collectionId, documents, updateData)
    /\ UNCHANGED <<mongoVars, peer, svc, now, colDb, docDb, facadeVars>>

----------------------------------------------------------------------------
(* DocumentService: the query translator and the search engine *)

\* "\uf8ff"
HIGH_CODE_POINT == 63743

Min(a, b) == IF a < b THEN a ELSE b

\* the first n elements of a sequence
Take(q, n) == SubSeq(q, 1, Min(n, Len(q)))

\* an optional property of queryParams: its value, or the default where absent
Param(queryParams, key, default) ==
    IF key \in DOMAIN queryParams THEN queryParams[key] ELSE default

\* if (queryParams.offset), if (queryParams.limit): present and not 0
Truthy(queryParams, key) ==
    key \in DOMAIN queryParams /\ queryParams[key] # 0

\* where(field, "==" | ">" | "<", value), and for "contains" the pair
\* where(field, ">=", value), where(field, "<=", value + "\uf8ff")
Matches(data, w) ==
    /\ w.field \in DOMAIN data
    /\ CASE w.op = "eq" -> data[w.field] = w.value
         [] w.op = "gt" -> StrLess(w.value, data[w.field])
         [] w.op = "lt" -> StrLess(data[w.field], w.value)
         [] w.op = "contains" ->
                /\ StrLeq(w.value, data[w.field])
                /\ StrLeq(data[w.field], w.value \o <<HIGH_CODE_POINT>>)

IsInequality(w) == w.op # "eq"

\* the fields Firestore sorts by: the orderBy clauses, or with none of them the
\* field of the first inequality filter, ascending
FsOrder(where, orderBy) ==
    IF orderBy # <<>> THEN orderBy
    ELSE IF SelectSeq(where, IsInequality) = <<>> THEN <<>>
    ELSE <<[field |-> SelectSeq(where, IsInequality)[1].field, dir |-> "asc"]>>

\* the direction of the final sort by document id: that of the last clause
FsNameDir(order) == IF order = <<>> THEN "asc" ELSE order[Len(order)].dir

\* d1 comes before d2 in the order of the query
RECURSIVE FsBefore(_, _, _, _)
FsBefore(d1, d2, order, nameDir) ==
    IF order = <<>>
    THEN IF nameDir = "asc" THEN StrLess(d1.id, d2.id) ELSE StrLess(d2.id, d1.id)
    ELSE IF d1.data[order[1].field] = d2.data[order[1].field]
    THEN FsBefore(d1, d2, Tail(order), nameDir)
    ELSE IF order[1].dir = "asc"
    THEN StrLess(d1.data[order[1].field], d2.data[order[1].field])
    ELSE StrLess(d2.data[order[1].field], d1.data[order[1].field])

RECURSIVE FsSorted(_, _, _)
FsSorted(ds, order, nameDir) ==
    IF ds = {} THEN <<>>
    ELSE LET d == CHOOSE x \in ds :
                    \A y \in ds \ {x} : FsBefore(x, y, order, nameDir)
         IN <<d>> \o FsSorted(ds \ {d}, order, nameDir)

\* getDocs(queryRef) of the where and orderBy clauses: a document matches when
\* it passes every filter and has every field sorted by
FsGetDocs(st, path, where, orderBy) ==
    LET order == FsOrder(where, orderBy)
    IN FsSorted({d \in DocsAt(st, path) :
                    /\ \A i \in 1..Len(where) : Matches(d.data, where[i])
                    /\ \A i \in 1..Len(order) : order[i].field \in DOMAIN d.data},
                order, FsNameDir(order))

StartAt(docs, lastDoc, order, nameDir) ==
    SelectSeq(docs, LAMBDA d : d = lastDoc \/ FsBefore(lastDoc, d, order, nameDir))

\* query(queryRef, startAfter(lastDoc)): the documents after the cursor
StartAfter(docs, lastDoc, order, nameDir) ==
    SelectSeq(docs, LAMBDA d : FsBefore(lastDoc, d, order, nameDir))

DataOf(docs) == [i \in 1..Len(docs) |-> docs[i].data]

HasMoreNonEmpty(data, queryParams) == Len(data) > 0

\* hasMore: data.length === queryParams.limit, false when limit is undefined
HasMore(data, queryParams) ==
    /\ "limit" \in DOMAIN queryParams
    /\ Len(data) = queryParams.limit

queryDocuments(collectionId, queryParams) ==
    LET in == [collectionId |-> collectionId, queryParams |-> queryParams]
        where == Param(queryParams, "where", <<>>)
        orderBy == Param(queryParams, "orderBy", <<>>)
        order == FsOrder(where, orderBy)
        totalSnapshot == FsGetDocs(store, collectionId, where, orderBy)
        firstPageSnapshot == Take(totalSnapshot, queryParams.offset)
        lastDoc == firstPageSnapshot[Len(firstPageSnapshot)]
        ranged == IF Truthy(queryParams, "offset")
                  THEN StartAfter(totalSnapshot, lastDoc, order, FsNameDir(order))
                  ELSE totalSnapshot
        snapshot == IF Truthy(queryParams, "limit")
                    THEN Take(ranged, queryParams.limit)
                    ELSE ranged
        data == DataOf(snapshot)
    IN
    /\ IF docDb = NoDb
       THEN Respond(Err("queryDocuments", in, "NotConnected"))
       ELSE IF Terminated(docDb)
       THEN Respond(Err("queryDocuments", in, "BackendFailure"))
       ELSE IF Truthy(queryParams, "offset") /\ firstPageSnapshot = <<>>
       THEN \* startAfter(undefined) throws
            Respond(Err("queryDocuments", in, "BackendFailure"))
       ELSE Respond(Ok("queryDocuments", in,
                       [data |-> data,
                        total |-> Len(totalSnapshot),
                        hasMore |-> HasMore(data, queryParams)]))
    /\ UNCHANGED <<mongoVars, peer, svc, store, now, colDb, docDb, facadeVars>>

KeepsDuplicates(allDocs) == allDocs

\* Array.from(new Map(allDocs.map((doc) => [doc.id, doc])).values()): one entry
\* per id, at the place of the id's first occurrence
UniqueDocs(allDocs) ==
    LET firsts == {i \in 1..Len(allDocs) :
                    \A j \in 1..(i - 1) : allDocs[j].id # allDocs[i].id}
        RECURSIVE Pick(_)
        Pick(i) ==
            IF i > Len(allDocs) THEN <<>>
            ELSE (IF i \in firsts THEN <<allDocs[i]>> ELSE <<>>) \o Pick(i + 1)
    IN Pick(1)

\* snapshots.flatMap((snap) => snap.docs) of the per-field range queries
RECURSIVE AllDocs(_, _, _, _)
AllDocs(st, path, searchText, fields) ==
    IF fields = <<>> THEN <<>>
    ELSE FsGetDocs(st, path,
                   <<[field |-> Head(fields), op |-> "contains",
                      value |-> searchText]>>, <<>>)
         \o AllDocs(st, path, searchText, Tail(fields))

PaginatedDocsFromPage(uniqueDocs, page, pageSize) ==
    SubSeq(uniqueDocs, page * pageSize + 1,
           Min(page * pageSize + pageSize, Len(uniqueDocs)))

\* const start = (page - 1) * pageSize;
\* uniqueDocs.slice(start, start + pageSize)
PaginatedDocs(uniqueDocs, page, pageSize) ==
    LET start == (page - 1) * pageSize
    IN SubSeq(uniqueDocs, start + 1, Min(start + pageSize, Len(uniqueDocs)))

\* hasMore: start + pageSize < total
SearchHasMore(page, pageSize, total) == (page - 1) * pageSize + pageSize < total

searchDocuments(collectionId, searchText, fields, page, pageSize) ==
    LET in == [collectionId |-> collectionId, searchText |-> searchText,
               fields |-> fields, page |-> page, pageSize |-> pageSize]
        uniqueDocs == UniqueDocs(AllDocs(store, collectionId, searchText, fields))
        total == Len(uniqueDocs)
        paginatedDocs == PaginatedDocs(uniqueDocs, page, pageSize)
    IN
    /\ IF docDb = NoDb
       THEN Respond(Err("searchDocuments", in, "NotConnected"))
       ELSE IF Terminated(docDb)
       THEN Respond(Err("searchDocuments", in, "BackendFailure"))
       ELSE Respond(Ok("searchDocuments", in,
                       [data |-> DataOf(paginatedDocs),
                        total |-> total,
                        hasMore |-> SearchHasMore(page, pageSize, total)]))
    /\ UNCHANGED <<mongoVars, peer, svc, store, now, colDb, docDb, facadeVars>>

----------------------------------------------------------------------------
(* MongoDBService *)

\* Number.prototype.toString of a non-negative integer
RECURSIVE NumberToString(_)
NumberToString(n) ==
    IF n < 10 THEN <<48 + n>>
    ELSE NumberToString(n \div 10) \o <<48 + (n % 10)>>

\* { ...data, id: new Date().getTime().toString(), createdAt, updatedAt }
MongoDocs(documents, timestamp) ==
    [i \in 1..Len(documents) |->
        Merge(documents[i], [id |-> NumberToString(timestamp),
                             createdAt |-> timestamp, updatedAt |-> timestamp])]

\* collection.insertMany(docs): ordered inserts, one document after the other;
\* the first rejected insert ends the call and the earlier inserts stay
InsertMany(coll, docs, failAt) ==
    [i \in 1..(IF failAt = 0 THEN Len(docs) ELSE failAt - 1) |->
        [coll |-> coll, doc |-> docs[i]]]

\* MongoDBService.batchCreateDocuments; failAt is the item whose insert the
\* server rejects, 0 for none
MongoBatchCreateDocuments(collectionId, documents, failAt) ==
    LET in == [collectionId |-> collectionId, documents |-> documents]
        docs == MongoDocs(documents, now)
    IN
    /\ failAt <= Len(documents)
    /\ IF mongoDb = NoDb
       THEN /\ Respond(Err("mongo.batchCreateDocuments", in, "NotConnected"))
            /\ UNCHANGED mongo
       ELSE /\ mongo' = mongo \o InsertMany(collectionId, docs, failAt)
            /\ IF failAt = 0
               THEN Respond(Ok("mongo.batchCreateDocuments", in, docs))
               ELSE Respond(Err("mongo.batchCreateDocuments", in, "BackendFailure"))
    /\ Len(mongo') <= MaxStored
    /\ UNCHANGED <<store, mongoDb, peer, svc, now, colDb, docDb, facadeVars>>

\* the filter object the reduce builds: acc[field] = ..., so the last triple
\* of a field is the one that stays
MongoFilter(where) ==
    {i \in 1..Len(where) :
        \A j \in (i + 1)..Len(where) : where[j].field # where[i].field}

\* { $regex: value, $options: "i" } for a value of plain characters
RegexIgnoreCase(text, value) ==
    \E i \in 0..(Len(text) - Len(value)) :
        SubSeq(ToLowerCase(text), i + 1, i + Len(value)) = ToLowerCase(value)

MongoMatches(doc, w) ==
    /\ w.field \in DOMAIN doc
    /\ CASE w.op = "eq" -> doc[w.field] = w.value
         [] w.op = "gt" -> StrLess(w.value, doc[w.field])
         [] w.op = "lt" -> StrLess(doc[w.field], w.value)
         [] w.op = "contains" -> RegexIgnoreCase(doc[w.field], w.value)

\* cursor.sort(sort): document i before document j; a missing field sorts as
\* null, before every string; equal keys stay in insertion order
RECURSIVE MongoBefore(_, _, _)
MongoBefore(i, j, orderBy) ==
    IF orderBy = <<>> THEN i < j
    ELSE LET f == orderBy[1].field
             hasI == f \in DOMAIN mongo[i].doc
             hasJ == f \in DOMAIN mongo[j].doc
             same == IF hasI /\ hasJ THEN mongo[i].doc[f] = mongo[j].doc[f]
                     ELSE hasI = hasJ
             less == IF hasI /\ hasJ THEN StrLess(mongo[i].doc[f], mongo[j].doc[f])
                     ELSE hasJ
         IN IF same THEN MongoBefore(i, j, Tail(orderBy))
            ELSE IF orderBy[1].dir = "asc" THEN less ELSE ~less

RECURSIVE MongoSorted(_, _)
MongoSorted(is, orderBy) ==
    IF is = {} THEN <<>>
    ELSE LET i == CHOOSE x \in is : \A y \in is \ {x} : MongoBefore(x, y, orderBy)
         IN <<mongo[i].doc>> \o MongoSorted(is \ {i}, orderBy)

\* find().filter(filter).sort(sort).toArray()
MongoFind(coll, where, orderBy) ==
    MongoSorted({i \in 1..Len(mongo) :
                    /\ mongo[i].coll = coll
                    /\ \A k \in MongoFilter(where) : MongoMatches(mongo[i].doc, where[k])},
                orderBy)

MongoQueryDocuments(collectionId, queryParams) ==
    LET in == [collectionId |-> collectionId, queryParams |-> queryParams]
        query == MongoFind(collectionId, Param(queryParams, "where", <<>>),
                           Param(queryParams, "orderBy", <<>>))
        skipped == IF Truthy(queryParams, "offset")
                   THEN SubSeq(query, queryParams.offset + 1, Len(query))
                   ELSE query
        data == IF Truthy(queryParams, "limit")
                THEN Take(skipped, queryParams.limit)
                ELSE skipped
    IN
    /\ IF mongoDb = NoDb
       THEN Respond(Err("mongo.queryDocuments", in, "NotConnected"))
       ELSE Respond(Ok("mongo.queryDocuments", in,
                       [data |-> data,
                        total |-> Len(query),
                        hasMore |-> HasMore(data, queryParams)]))
    /\ UNCHANGED <<mongoVars, peer, svc, store, now, colDb, docDb, facadeVars>>

\* the credentials a caller passes: with a connection URI or without
MongoConfigs == {[uri |-> u] : u \in BOOLEAN}

\* MongoDBService.connect(config)
MongoConnect(config, connectFails) ==
    /\ IF ~config.uri
       THEN /\ Respond(Err("mongo.connect", [uri |-> config.uri], "InvalidCredentials"))
            /\ UNCHANGED mongoDb
       ELSE IF connectFails
       THEN /\ Respond(Err("mongo.connect", [uri |-> config.uri], "BackendFailure"))
            /\ UNCHANGED mongoDb
       ELSE /\ Respond(Ok("mongo.connect", [uri |-> config.uri],
                          [session |-> "connected"]))
            /\ mongoDb' = 1
    /\ UNCHANGED <<mongo, peer, svc, store, now, colDb, docDb, facadeVars>>

----------------------------------------------------------------------------
(* The clock *)

Tick ==
    /\ now < MaxClock
    /\ now' = now + 1
    /\ UNCHANGED <<mongoVars, peer, svc, store, colDb, docDb, facadeVars, last, prev, recording>>

----------------------------------------------------------------------------
(* FirebaseService: the facade's connect and disconnect.  A call runs to  *)
(* its next await in one step; calls of different callers interleave at   *)
(* the awaits.                                                            *)

Callers == 1..MaxCallers

\* config.credentials: whether projectId and apiKey are given
Configs ==
    {[projectId |-> TRUE, apiKey |-> TRUE],
     [projectId |-> TRUE, apiKey |-> FALSE],
     [projectId |-> FALSE, apiKey |-> TRUE]}

Idle == [call |-> "none", at |-> "idle", apiKey |-> FALSE, arg |-> NoDb]

At(call, at, apiKey, arg) ==
    [call |-> call, at |-> at, apiKey |-> apiKey, arg |-> arg]

FlagHeldAfterConnect == TRUE

\* finally { this.isConnecting = false }: the flag once connect has ended,
\* by return or by throw
FlagAfterConnect == FALSE

ConnectInProgressNever(flag) == FALSE

\* if (this.isConnecting) return
ConnectInProgress(flag) == flag

\* this.app = null; this.db = null; this.rtdb = null; this.auth = null
ClearSession ==
    /\ app' = NoDb
    /\ db' = NoDb
    /\ auth' = NoDb

\* this.collectionService.setDb(this.db); this.documentService.setDb(this.db)
initializeServices(handle) ==
    /\ colDb' = handle
    /\ docDb' = handle

\* what connect returns once setDb has been called on the collection and
\* document services: imageService, fileService and freePlanService are
\* initialized next, and a throw of theirs is rethrown by connect
ConnectResult(apiKey, servicesFail) ==
    IF servicesFail
    THEN Err("connect", [apiKey |-> apiKey], "BackendFailure")
    ELSE Ok("connect", [apiKey |-> apiKey], [session |-> "connected"])

\* connect from "Initialize Firebase with the full config" to its next await
\* or its end
ConnectBody(c, apiKey, initFails) ==
    IF initFails
    THEN /\ Respond(Err("connect", [apiKey |-> apiKey], "BackendFailure"))
         /\ isConnecting' = FlagAfterConnect
         /\ pc' = [pc EXCEPT ![c] = Idle]
         /\ UNCHANGED <<app, db, auth, live, created, colDb, docDb>>
    ELSE /\ created < MaxApps
         /\ created' = created + 1
         /\ live' = live \cup {created + 1}
         /\ app' = created + 1
         /\ db' = created + 1
         /\ IF apiKey
            THEN /\ auth' = created + 1
                 /\ isConnecting' = TRUE
                 /\ pc' = [pc EXCEPT ![c] = At("connect", "signIn", apiKey, NoDb)]
                 /\ UNCHANGED <<colDb, docDb, last, prev, recording>>
            ELSE /\ initializeServices(created + 1)
                 /\ \E servicesFail \in BOOLEAN :
                        Respond(ConnectResult(apiKey, servicesFail))
                 /\ isConnecting' = FlagAfterConnect
                 /\ pc' = [pc EXCEPT ![c] = Idle]
                 /\ UNCHANGED auth

ProjectIdMissingNever(config) == FALSE

\* if (!config.credentials.projectId)
ProjectIdMissing(config) == ~config.projectId

\* connect(config), from the call to its first await or its end
connect(c, config, initFails) ==
    /\ pc[c] = Idle
    /\ IF ConnectInProgress(isConnecting)
       THEN /\ Respond(Ok("connect", [apiKey |-> config.apiKey], [session |-> "skipped"]))
            /\ UNCHANGED <<colDb, docDb, facadeVars>>
       ELSE IF ProjectIdMissing(config)
       THEN /\ Respond(Err("connect", [apiKey |-> config.apiKey], "InvalidCredentials"))
            /\ UNCHANGED <<colDb, docDb, facadeVars>>
       ELSE IF app # NoDb
       THEN /\ isConnecting' = TRUE
            /\ pc' = [pc EXCEPT ![c] =
                        IF auth # NoDb
                        THEN At("connect", "signOut", config.apiKey, NoDb)
                        ELSE At("connect", "deleteApp", config.apiKey, app)]
            /\ UNCHANGED <<app, db, auth, live, created, colDb, docDb,
                           last, prev, recording>>
       ELSE ConnectBody(c, config.apiKey, initFails)
    /\ UNCHANGED <<mongoVars, peer, svc, store, now>>

\* disconnect(), from the call to its first await or its end
disconnect(c) ==
    /\ pc[c] = Idle
    /\ IF auth # NoDb
       THEN /\ pc' = [pc EXCEPT ![c] = At("disconnect", "signOut", FALSE, NoDb)]
            /\ UNCHANGED <<app, db, auth, last, prev, recording>>
       ELSE IF app # NoDb
       THEN /\ pc' = [pc EXCEPT ![c] = At("disconnect", "deleteApp", FALSE, app)]
            /\ UNCHANGED <<app, db, auth, last, prev, recording>>
       ELSE /\ ClearSession
            /\ Respond(Ok("disconnect", <<>>, <<>>))
            /\ UNCHANGED pc
    /\ UNCHANGED <<mongoVars, peer, svc, store, now, colDb, docDb, isConnecting, live, created>>

\* the end of a disconnect: of the call itself, or of the one connect awaits
DisconnectReturns(c) ==
    IF pc[c].call = "disconnect"
    THEN /\ pc' = [pc EXCEPT ![c] = Idle]
         /\ Respond(Ok("disconnect", <<>>, <<>>))
    ELSE /\ pc' = [pc EXCEPT ![c] = [pc[c] EXCEPT !.at = "disconnected", !.arg = NoDb]]
         /\ UNCHANGED <<last, prev, recording>>

\* await this.auth.signOut() settles (a rejection is caught and logged)
signOutSettles(c) ==
    /\ pc[c].at = "signOut"
    /\ IF app # NoDb
       THEN /\ pc' = [pc EXCEPT ![c] = [pc[c] EXCEPT !.at = "deleteApp", !.arg = app]]
            /\ UNCHANGED <<app, db, auth, last, prev, recording>>
       ELSE /\ ClearSession
            /\ DisconnectReturns(c)
    /\ UNCHANGED <<mongoVars, peer, svc, store, now, colDb, docDb, isConnecting, live, created>>

\* await deleteApp(this.app) settles (a rejection is caught and logged)
deleteAppSettles(c, rejected) ==
    /\ pc[c].at = "deleteApp"
    /\ live' = IF rejected THEN live ELSE live \ {pc[c].arg}
    /\ ClearSession
    /\ DisconnectReturns(c)
    /\ UNCHANGED <<mongoVars, peer, svc, store, now, colDb, docDb, isConnecting, created>>

\* connect continues after await this.disconnect()
connectAfterDisconnect(c, initFails) ==
    /\ pc[c].at = "disconnected"
    /\ ConnectBody(c, pc[c].apiKey, initFails)
    /\ UNCHANGED <<mongoVars, peer, svc, store, now>>

\* await signInAnonymously(this.auth) settles (a rejection is caught and
\* logged); initializeServices; finally
signInSettles(c) ==
    /\ pc[c].at = "signIn"
    /\ IF app = NoDb \/ db = NoDb
       THEN /\ Respond(Err("connect", [apiKey |-> pc[c].apiKey], "BackendFailure"))
            /\ UNCHANGED <<colDb, docDb>>
       ELSE /\ initializeServices(db)
            /\ \E servicesFail \in BOOLEAN :
                    Respond(ConnectResult(pc[c].apiKey, servicesFail))
    /\ isConnecting' = FlagAfterConnect
    /\ pc' = [pc EXCEPT ![c] = Idle]
    /\ UNCHANGED <<mongoVars, peer, svc, store, now, app, db, auth, live, created>>

----------------------------------------------------------------------------
(* A second FirebaseService instance of the same process.  Its constructor *)
(* takes CollectionService.getInstance() and DocumentService.getInstance(),*)
(* the services the first facade holds; its own fields are the app it has  *)
(* initialized (peer).                                                     *)

\* connect({projectId}) on the second instance while it holds no session:
\* no await is reached; initializeApp, getFirestore, initializeServices
peerConnect ==
    /\ peer = NoDb
    /\ created < MaxApps
    /\ created' = created + 1
    /\ live' = live \cup {created + 1}
    /\ peer' = created + 1
    /\ initializeServices(created + 1)
    /\ UNCHANGED <<mongoVars, svc, store, now, app, db, auth, isConnecting, pc,
                   last, prev, recording>>

\* disconnect() on the second instance, at the settling of its deleteApp
\* (a rejection is caught and logged); its fields are cleared
peerDisconnect(rejected) ==
    /\ peer # NoDb
    /\ live' = IF rejected THEN live ELSE live \ {peer}
    /\ peer' = NoDb
    /\ UNCHANGED <<mongoVars, svc, store, now, colDb, docDb, app, db, auth,
                   isConnecting, pc, created, last, prev, recording>>

----------------------------------------------------------------------------
(* Service calls of several callers.  A call runs to its next await in one *)
(* step and the backend serves the awaited request in the step that        *)
(* resumes the call; calls of different callers interleave at the awaits.  *)

\* a caller inside no service call
Returned == [call |-> "none", at |-> "returned", arg |-> <<>>]

Awaiting(call, at, arg) == [call |-> call, at |-> at, arg |-> arg]

\* the auto-ids other suspended calls have drawn for a path and not written
DrawnIds(c, path) ==
    {svc[d].arg.fid : d \in {e \in Callers \ {c} :
                                /\ svc[e].at \in {"setDoc"}
                                /\ svc[e].arg.path = path}}

\* createCollection(collectionData, mockData) up to await getDocs(existingQuery)
createCollectionCalls(c, collectionData, mockData) ==
    /\ svc[c] = Returned
    /\ IF colDb = NoDb
       THEN /\ Respond(Err("createCollection", collectionData.name, "NotConnected"))
            /\ UNCHANGED svc
       ELSE /\ svc' = [svc EXCEPT ![c] =
                        Awaiting("createCollection", "getDocs",
                                 [collectionData |-> collectionData,
                                  mockData |-> mockData])]
            /\ UNCHANGED <<last, prev, recording>>
    /\ UNCHANGED <<mongoVars, peer, store, now, colDb, docDb, facadeVars>>

\* the name query is answered: the existing definition is returned, or the
\* new one is built and createCollection awaits setDoc
createCollectionQueried(c) ==
    /\ svc[c].call = "createCollection" /\ svc[c].at = "getDocs"
    /\ LET collectionData == svc[c].arg.collectionData
           normalizedName == NormalizeName(collectionData.name)
           existing == ExistingByName(store, normalizedName)
       IN IF Terminated(colDb)
          THEN /\ Respond(Err("createCollection", collectionData.name, "BackendFailure"))
               /\ svc' = [svc EXCEPT ![c] = Returned]
          ELSE IF existing # {}
          THEN /\ Respond(Ok("createCollection", collectionData.name,
                             [existed |-> TRUE,
                              def |-> ExistingView(InIdOrder(existing)[1],
                                                   normalizedName)]))
               /\ svc' = [svc EXCEPT ![c] = Returned]
          ELSE \E shortId \in ShortIds,
                  fid \in FreshIds(store, COLLECTIONS_PATH)
                            \ DrawnIds(c, COLLECTIONS_PATH) :
               /\ svc' = [svc EXCEPT ![c] =
                            Awaiting("createCollection", "setDoc",
                                [path |-> COLLECTIONS_PATH, fid |-> fid,
                                 mockData |-> svc[c].arg.mockData,
                                 name |-> collectionData.name,
                                 newCollection |->
                                    NewCollection(collectionData,
                                        generateCollectionId(normalizedName, shortId),
                                        fid, normalizedName, now)])]
               /\ UNCHANGED <<last, prev, recording>>
    /\ UNCHANGED <<mongoVars, peer, store, now, colDb, docDb, facadeVars>>

\* setDoc of the definition settles; without seed documents createCollection
\* returns, with seed documents it awaits batch.commit()
createCollectionStored(c, setFails) ==
    /\ svc[c].call = "createCollection" /\ svc[c].at = "setDoc"
    /\ LET arg == svc[c].arg
       IN IF setFails \/ Terminated(colDb)
          THEN /\ Respond(Err("createCollection", arg.name, "BackendFailure"))
               /\ svc' = [svc EXCEPT ![c] = Returned]
               /\ UNCHANGED store
          ELSE /\ store' = SetDoc(store, COLLECTIONS_PATH, arg.fid,
                                  serializeForFirestore(arg.newCollection))
               /\ IF Len(arg.mockData) > 0
                  THEN /\ svc' = [svc EXCEPT ![c] =
                                    Awaiting("createCollection", "commit", arg)]
                       /\ UNCHANGED <<last, prev, recording>>
                  ELSE /\ Respond(Ok("createCollection", arg.name,
                                     [existed |-> FALSE, def |-> arg.newCollection]))
                       /\ svc' = [svc EXCEPT ![c] = Returned]
    /\ Cardinality(store') <= MaxStored
    /\ UNCHANGED <<mongoVars, peer, now, colDb, docDb, facadeVars>>

\* batch.commit() of the seed documents settles
createCollectionSeeded(c, commitFails) ==
    /\ svc[c].call = "createCollection" /\ svc[c].at = "commit"
    /\ LET arg == svc[c].arg
       IN IF commitFails \/ Terminated(colDb)
          THEN /\ Respond(Err("createCollection", arg.name, "BackendFailure"))
               /\ UNCHANGED store
          ELSE \E seedIds \in FreshIdSeqs(store, arg.newCollection.id,
                                          Len(arg.mockData)) :
               /\ Respond(Ok("createCollection", arg.name,
                             [existed |-> FALSE, def |-> arg.newCollection]))
               /\ store' = CommitBatch(store,
                                SeedWrites(arg.newCollection.id, arg.mockData,
                                           seedIds, arg.newCollection.createdAt),
                                {})
    /\ svc' = [svc EXCEPT ![c] = Returned]
    /\ Cardinality(store') <= MaxStored
    /\ UNCHANGED <<mongoVars, peer, now, colDb, docDb, facadeVars>>

\* updateDocument(collectionId, documentId, data) up to await updateDoc: the
\* clock is read for updatedAt before the write is sent
updateDocumentCalls(c, collectionId, documentId, data) ==
    LET in == [collectionId |-> collectionId, documentId |-> documentId,
               data |-> data]
    IN
    /\ svc[c] = Returned
    /\ IF docDb = NoDb
       THEN /\ Respond(Err("updateDocument", in, "NotConnected"))
            /\ UNCHANGED svc
       ELSE IF documentId = <<>>
       THEN /\ Respond(Err("updateDocument", in, "InvalidArgument"))
            /\ UNCHANGED svc
       ELSE /\ svc' = [svc EXCEPT ![c] =
                        Awaiting("updateDocument", "updateDoc",
                                 [in |-> in,
                                  finalUpdateData |->
                                     Merge(WithoutFid(data), [updatedAt |-> now])])]
            /\ UNCHANGED <<last, prev, recording>>
    /\ UNCHANGED <<mongoVars, peer, store, now, colDb, docDb, facadeVars>>

\* updateDoc settles: the backend applies the write, or rejects it
updateDocumentWritten(c) ==
    /\ svc[c].call = "updateDocument" /\ svc[c].at = "updateDoc"
    /\ LET in == svc[c].arg.in
       IN IF Terminated(docDb)
          THEN /\ Respond(Err("updateDocument", in, "BackendFailure"))
               /\ svc' = [svc EXCEPT ![c] = Returned]
               /\ UNCHANGED store
          ELSE IF Snap(store, in.collectionId, in.documentId) = {}
          THEN /\ Respond(Err("updateDocument", in, "NotFound"))
               /\ svc' = [svc EXCEPT ![c] = Returned]
               /\ UNCHANGED store
          ELSE /\ store' = UpdateDoc(store, in.collectionId, in.documentId,
                                     svc[c].arg.finalUpdateData)
               /\ svc' = [svc EXCEPT ![c] = [svc[c] EXCEPT !.at = "getDoc"]]
               /\ UNCHANGED <<last, prev, recording>>
    /\ UNCHANGED <<mongoVars, peer, now, colDb, docDb, facadeVars>>

\* getDoc settles: updateDocument returns { fid: updated.id, ...updated.data() }
updateDocumentRead(c) ==
    /\ svc[c].call = "updateDocument" /\ svc[c].at = "getDoc"
    /\ LET in == svc[c].arg.in
           updated == Snap(store, in.collectionId, in.documentId)
       IN IF Terminated(docDb)
          THEN Respond(Err("updateDocument", in, "BackendFailure"))
          ELSE Respond(Ok("updateDocument", in,
                          IF updated = {} THEN [fid |-> in.documentId]
                          ELSE Merge([fid |-> in.documentId],
                                     (CHOOSE d \in updated : TRUE).data)))
    /\ svc' = [svc EXCEPT ![c] = Returned]
    /\ UNCHANGED <<mongoVars, peer, store, now, colDb, docDb, facadeVars>>

\* deleteCollection(collectionId) up to await getDoc(collectionRef)
deleteCollectionCalls(c, collectionId) ==
    /\ svc[c] = Returned
    /\ IF colDb = NoDb
       THEN /\ Respond(Err("deleteCollection", collectionId, "NotConnected"))
            /\ UNCHANGED svc
       ELSE /\ svc' = [svc EXCEPT ![c] =
                        Awaiting("deleteCollection", "getDoc",
                                 [collectionId |-> collectionId])]
            /\ UNCHANGED <<last, prev, recording>>
    /\ UNCHANGED <<mongoVars, peer, store, now, colDb, docDb, facadeVars>>

\* the definition is read: not found, or deleteCollection awaits the scan
\* getDocs(collection(this.db, collectionData.id))
deleteCollectionFound(c) ==
    /\ svc[c].call = "deleteCollection" /\ svc[c].at = "getDoc"
    /\ LET collectionId == svc[c].arg.collectionId
           collectionDoc == Snap(store, COLLECTIONS_PATH, collectionId)
       IN IF Terminated(colDb)
          THEN /\ Respond(Err("deleteCollection", collectionId, "BackendFailure"))
               /\ svc' = [svc EXCEPT ![c] = Returned]
          ELSE IF collectionDoc = {}
          THEN /\ Respond(Err("deleteCollection", collectionId, "NotFound"))
               /\ svc' = [svc EXCEPT ![c] = Returned]
          ELSE /\ svc' = [svc EXCEPT ![c] =
                            Awaiting("deleteCollection", "getDocs",
                                     [collectionId |-> collectionId,
                                      collectionDoc |-> collectionDoc])]
               /\ UNCHANGED <<last, prev, recording>>
    /\ UNCHANGED <<mongoVars, peer, store, now, colDb, docDb, facadeVars>>

\* the scan is answered: the deletes are queued on the batch and
\* deleteCollection awaits batch.commit()
deleteCollectionScanned(c) ==
    /\ svc[c].call = "deleteCollection" /\ svc[c].at = "getDocs"
    /\ LET arg == svc[c].arg
           collectionData == (CHOOSE d \in arg.collectionDoc : TRUE).data
           dataSnapshot == DataSnapshot(store, collectionData)
       IN IF Terminated(colDb)
          THEN /\ Respond(Err("deleteCollection", arg.collectionId, "BackendFailure"))
               /\ svc' = [svc EXCEPT ![c] = Returned]
          ELSE /\ svc' = [svc EXCEPT ![c] =
                            Awaiting("deleteCollection", "commit",
                                     [collectionId |-> arg.collectionId,
                                      id |-> collectionData.id,
                                      scanned |-> Cardinality(dataSnapshot),
                                      deletes |-> {[path |-> d.path, id |-> d.id] :
                                          d \in DeleteWrites(dataSnapshot,
                                                             arg.collectionDoc)}])]
               /\ UNCHANGED <<last, prev, recording>>
    /\ UNCHANGED <<mongoVars, peer, store, now, colDb, docDb, facadeVars>>

\* batch.commit() settles: every queued reference is deleted, or none is
deleteCollectionCommitted(c, commitFails) ==
    /\ svc[c].call = "deleteCollection" /\ svc[c].at = "commit"
    /\ LET arg == svc[c].arg
       IN IF commitFails \/ Terminated(colDb)
          THEN /\ Respond(Err("deleteCollection", arg.collectionId, "BackendFailure"))
               /\ UNCHANGED store
          ELSE /\ Respond(Ok("deleteCollection", arg.collectionId,
                             [id |-> arg.id, scanned |-> arg.scanned]))
               /\ store' = {d \in store :
                                [path |-> d.path, id |-> d.id] \notin arg.deletes}
    /\ svc' = [svc EXCEPT ![c] = Returned]
    /\ UNCHANGED <<mongoVars, peer, now, colDb, docDb, facadeVars>>

----------------------------------------------------------------------------
(* Inputs of the catalog and document-store calls *)

\* the identifiers a caller holds for a collection: its logical id or its fid
KnownCollectionIds(st) ==
    AutoIds \cup {d.data.id : d \in Definitions(st)}

\* the data spaces a caller addresses: those of the stored definitions
KnownDataPaths(st) ==
    {p \in {d.data.id : d \in Definitions(st)} : p # <<>> /\ p # COLLECTIONS_PATH}

\* Partial<Collection> values passed to updateCollection
Partials == {[name |-> n] : n \in Names}

\* the field mappings a caller passes as a document
\* (strings as values; an instant stands for a Date)
DocumentInputs ==
    {[title |-> <<97>>, body |-> <<98>>],
     [title |-> <<65>>, fid |-> <<57>>],
     [createdAt |-> MaxClock + 1, updatedAt |-> MaxClock + 1]}

\* "p", the collection the document-store calls address
DocPath == <<112>>

CatalogDocumentInputs == {[title |-> <<97>>]}

SeedInputs == {<<>>, <<[title |-> <<97>>]>>}

\* the backend call of createCollection that is made to fail, if any
CreateFailures == {"none", "setDoc", "commit"}

----------------------------------------------------------------------------
(* The catalog and the document store, one call at a time, on a connected *)
(* session                                                                *)

Init ==
    /\ store = {}
    /\ mongo = <<>>
    /\ mongoDb = 1
    /\ now = 0
    /\ colDb = 1
    /\ docDb = 1
    /\ app = 1
    /\ db = 1
    /\ auth = NoDb
    /\ isConnecting = FALSE
    /\ pc = [c \in Callers |-> Idle]
    /\ live = {1}
    /\ created = 1
    /\ last = NoCall
    /\ prev = NoCall
    /\ recording = FALSE
    /\ peer = NoDb
    /\ svc = [c \in Callers |-> Returned]

Next ==
    \/ getAllCollections
    \/ \E id \in KnownCollectionIds(store) : getCollection(id)
    \/ \E name \in Names, mockData \in SeedInputs, failAt \in CreateFailures :
            createCollection([name |-> name], mockData, failAt)
    \/ \E id \in KnownCollectionIds(store), partial \in Partials :
            updateCollection(id, partial)
    \/ \E id \in KnownCollectionIds(store), commitFails \in BOOLEAN :
            deleteCollection(id, commitFails)
    \/ \E path \in KnownDataPaths(store), data \in CatalogDocumentInputs,
          setFails \in BOOLEAN :
            createDocument(path, data, setFails)
    \/ \E path \in KnownDataPaths(store), id \in AutoIds : getDocument(path, id)

Spec == Init /\ [][Next]_vars

----------------------------------------------------------------------------
(* The catalog alone: definitions created, with and without seed          *)
(* documents, listed and deleted                                          *)

NextCatalog ==
    \/ getAllCollections
    \/ \E name \in Names, mockData \in SeedInputs, failAt \in CreateFailures :
            createCollection([name |-> name], mockData, failAt)
    \/ \E id \in KnownCollectionIds(store), commitFails \in BOOLEAN :
            deleteCollection(id, commitFails)

SpecCatalog == Init /\ [][NextCatalog]_vars

----------------------------------------------------------------------------
(* The catalog's definitions created, updated with partial definitions     *)
(* that carry a name, an id or a fid, and read                             *)

IdPartials == {[name |-> <<98>>], [id |-> <<122>>], [fid |-> <<57>>]}

UpdateCollectionCall ==
    \E id \in KnownCollectionIds(store), partial \in IdPartials :
        updateCollection(id, partial)

NextCatalogUpdate ==
    \/ \E name \in Names : createCollection([name |-> name], <<>>, "none")
    \/ UpdateCollectionCall
    \/ \E id \in KnownCollectionIds(store) : getCollection(id)

SpecCatalogUpdate == Init /\ [][NextCatalogUpdate]_vars

----------------------------------------------------------------------------
(* createCollection calls of several callers, interleaved at their awaits, *)
(* the preceding answer kept                                               *)

InitOverlap ==
    /\ store = {}
    /\ mongo = <<>>
    /\ mongoDb = 1
    /\ now = 0
    /\ colDb = 1
    /\ docDb = 1
    /\ app = 1
    /\ db = 1
    /\ auth = NoDb
    /\ isConnecting = FALSE
    /\ pc = [c \in Callers |-> Idle]
    /\ live = {1}
    /\ created = 1
    /\ last = NoCall
    /\ prev = NoCall
    /\ recording = TRUE
    /\ peer = NoDb
    /\ svc = [c \in Callers |-> Returned]

NextCreate ==
    \/ \E c \in Callers, name \in Names, mockData \in SeedInputs :
            createCollectionCalls(c, [name |-> name], mockData)
    \/ \E c \in Callers : createCollectionQueried(c)
    \/ \E c \in Callers, setFails \in BOOLEAN : createCollectionStored(c, setFails)
    \/ \E c \in Callers, commitFails \in BOOLEAN :
            createCollectionSeeded(c, commitFails)

SpecCreate == InitOverlap /\ [][NextCreate]_vars

----------------------------------------------------------------------------
(* deleteCollection calls interleaved at their awaits with one another,    *)
(* with createCollection and with createDocument in the data spaces        *)

NextDeleteOverlap ==
    \/ \E mockData \in SeedInputs :
            createCollection([name |-> <<97>>], mockData, "none")
    \/ \E path \in KnownDataPaths(store), data \in CatalogDocumentInputs,
          setFails \in BOOLEAN :
            createDocument(path, data, setFails)
    \/ \E c \in Callers, id \in KnownCollectionIds(store) :
            deleteCollectionCalls(c, id)
    \/ \E c \in Callers : deleteCollectionFound(c)
    \/ \E c \in Callers : deleteCollectionScanned(c)
    \/ \E c \in Callers, commitFails \in BOOLEAN :
            deleteCollectionCommitted(c, commitFails)

SpecDeleteOverlap == Init /\ [][NextDeleteOverlap]_vars

----------------------------------------------------------------------------
(* The document store on one collection, with the clock running and the   *)
(* preceding call kept                                                    *)

InitDoc ==
    /\ store = {}
    /\ mongo = <<>>
    /\ mongoDb = 1
    /\ now = 0
    /\ colDb = 1
    /\ docDb = 1
    /\ app = 1
    /\ db = 1
    /\ auth = NoDb
    /\ isConnecting = FALSE
    /\ pc = [c \in Callers |-> Idle]
    /\ live = {1}
    /\ created = 1
    /\ last = NoCall
    /\ prev = NoCall
    /\ recording = TRUE
    /\ peer = NoDb
    /\ svc = [c \in Callers |-> Returned]

NextDoc ==
    \/ \E data \in DocumentInputs, setFails \in BOOLEAN :
            createDocument(DocPath, data, setFails)
    \/ \E id \in AutoIds : getDocument(DocPath, id)
    \/ Tick

SpecDoc == InitDoc /\ [][NextDoc]_vars

----------------------------------------------------------------------------
(* The batch engine of both backends on one collection *)

\* the batches a caller passes: one or two items
BatchInputs ==
    {<<[title |-> <<97>>]>>,
     <<[title |-> <<97>>], [title |-> <<98>>]>>,
     <<[title |-> <<98>>], [title |-> <<98>>]>>}

InitBatch ==
    /\ store = {}
    /\ mongo = <<>>
    /\ mongoDb = 1
    /\ now = 0
    /\ colDb = 1
    /\ docDb = 1
    /\ app = 1
    /\ db = 1
    /\ auth = NoDb
    /\ isConnecting = FALSE
    /\ pc = [c \in Callers |-> Idle]
    /\ live = {1}
    /\ created = 1
    /\ last = NoCall
    /\ prev = NoCall
    /\ recording = FALSE
    /\ peer = NoDb
    /\ svc = [c \in Callers |-> Returned]

FirestoreBatchCall ==
    \E documents \in BatchInputs, commitFails \in BOOLEAN :
        batchCreateDocuments(DocPath, documents, commitFails)

MongoBatchCall ==
    \E documents \in BatchInputs, failAt \in 0..MaxStored :
        MongoBatchCreateDocuments(DocPath, documents, failAt)

NextBatch ==
    \/ FirestoreBatchCall
    \/ MongoBatchCall
    \/ Tick

SpecBatch == InitBatch /\ [][NextBatch]_vars

----------------------------------------------------------------------------
(* The query translator and the search engine: one call on a collection   *)
(* of up to MaxDocs documents                                             *)

\* the caller-supplied fields of the stored documents
QueryFields ==
    {[t |-> <<97>>], [t |-> <<97, 98>>, g |-> <<97>>], [g |-> <<98>>]}

QueryIds == {NumberToString(k) : k \in 1..MaxDocs}

\* the collections createDocument can have written under DocPath
QueryStores ==
    {{[path |-> DocPath, id |-> i, data |-> DocumentData(f[i], i, 0)] :
            i \in {j \in QueryIds : f[j] # <<>>}} :
        f \in [QueryIds -> QueryFields \cup {<<>>}]}

\* the collections MongoDBService.createDocument can have written, one
\* document per clock value
RECURSIVE MongoStores(_)
MongoStores(n) ==
    IF n = 0 THEN {<<>>}
    ELSE MongoStores(n - 1) \cup
         {Append(m, [coll |-> DocPath,
                     doc |-> Merge(f, [id |-> NumberToString(n),
                                       createdAt |-> n, updatedAt |-> n])]) :
            m \in {x \in MongoStores(n - 1) : Len(x) = n - 1}, f \in QueryFields}

WhereInputs ==
    {<<>>,
     [where |-> <<[field |-> "g", op |-> "eq", value |-> <<97>>]>>],
     [where |-> <<[field |-> "t", op |-> "contains", value |-> <<97>>]>>],
     [where |-> <<[field |-> "t", op |-> "gt", value |-> <<97>>]>>],
     [where |-> <<[field |-> "t", op |-> "gt", value |-> <<97>>],
                  [field |-> "t", op |-> "lt", value |-> <<97, 98>>]>>]}

OrderByInputs ==
    {<<>>,
     [orderBy |-> <<[field |-> "t", dir |-> "asc"]>>],
     [orderBy |-> <<[field |-> "t", dir |-> "desc"]>>]}

\* limit and offset: absent, 0, or a page size with the offset of a page
PageInputs ==
    {<<>>, [limit |-> 0], [offset |-> 2], [limit |-> 2]}
        \cup {[limit |-> l, offset |-> k * l] : l \in 1..2, k \in 0..2}

QueryInputs ==
    {Merge(Merge(w, o), pg) :
        w \in WhereInputs, o \in OrderByInputs, pg \in PageInputs}

SearchTexts == {<<97>>, <<98>>}

SearchFields == {<<"t">>, <<"t", "g">>, <<"g", "t">>, <<"t", "t">>}

InitQuery ==
    /\ \/ store \in QueryStores /\ mongo = <<>>
       \/ store = {} /\ mongo \in MongoStores(MaxDocs) /\ mongo # <<>>
    /\ mongoDb = 1
    /\ now = MaxDocs
    /\ colDb = 1
    /\ docDb = 1
    /\ app = 1
    /\ db = 1
    /\ auth = NoDb
    /\ isConnecting = FALSE
    /\ pc = [c \in Callers |-> Idle]
    /\ live = {1}
    /\ created = 1
    /\ last = NoCall
    /\ prev = NoCall
    /\ recording = FALSE
    /\ peer = NoDb
    /\ svc = [c \in Callers |-> Returned]

\* no call has been made yet, and the backend in use is the one given
Fresh(backend) ==
    /\ last = NoCall
    /\ (backend = "mongodb") <=> (mongo # <<>>)

NextQuery ==
    \/ \E queryParams \in QueryInputs :
            Fresh("firebase") /\ queryDocuments(DocPath, queryParams)
    \/ \E queryParams \in QueryInputs :
            Fresh("mongodb") /\ MongoQueryDocuments(DocPath, queryParams)
    \/ \E searchText \in SearchTexts, fields \in SearchFields,
          page \in 1..3, pageSize \in {2, MaxDocs} :
            /\ Fresh("firebase")
            /\ searchDocuments(DocPath, searchText, fields, page, pageSize)

SpecQuery == InitQuery /\ [][NextQuery]_vars

----------------------------------------------------------------------------
(* The document store's writes on one collection: create, update,         *)
(* createMany and updateMany, with the clock running                      *)

\* the patches a caller passes to update: plain fields, an identity field,
\* timestamps
Patches ==
    {[title |-> <<98>>],
     [title |-> <<98>>, fid |-> <<57>>],
     [createdAt |-> MaxClock + 1]}

\* the batches a caller passes to updateMany
BatchPatches ==
    {<<[id |-> i, data |-> p]>> : i \in AutoIds, p \in Patches}
        \cup {<<[id |-> <<49>>, data |-> [title |-> <<98>>]],
                [id |-> <<50>>, data |-> [title |-> <<98>>]]>>}

InitUpdate ==
    /\ store = {}
    /\ mongo = <<>>
    /\ mongoDb = 1
    /\ now = 0
    /\ colDb = 1
    /\ docDb = 1
    /\ app = 1
    /\ db = 1
    /\ auth = NoDb
    /\ isConnecting = FALSE
    /\ pc = [c \in Callers |-> Idle]
    /\ live = {1}
    /\ created = 1
    /\ last = NoCall
    /\ prev = NoCall
    /\ recording = FALSE
    /\ peer = NoDb
    /\ svc = [c \in Callers |-> Returned]

BatchUpdateCall ==
    \E documents \in BatchPatches, commitFails \in BOOLEAN :
        batchUpdateDocuments(DocPath, documents, commitFails)

NextUpdate ==
    \/ Cardinality(store) < MaxWritten
            /\ createDocument(DocPath, [title |-> <<97>>], FALSE)
    \/ Cardinality(store) < MaxWritten
            /\ batchCreateDocuments(DocPath, <<[title |-> <<97>>]>>, FALSE)
    \/ \E id \in AutoIds, data \in Patches : updateDocument(DocPath, id, data)
    \/ BatchUpdateCall
    \/ Tick

SpecUpdate == InitUpdate /\ [][NextUpdate]_vars

----------------------------------------------------------------------------
(* The facade: callers connect, disconnect and make data calls, starting  *)
(* from a facade that has never connected                                 *)

InitFacade ==
    /\ store = {}
    /\ mongo = <<>>
    /\ mongoDb = NoDb
    /\ now = 0
    /\ colDb = NoDb
    /\ docDb = NoDb
    /\ app = NoDb
    /\ db = NoDb
    /\ auth = NoDb
    /\ isConnecting = FALSE
    /\ pc = [c \in Callers |-> Idle]
    /\ live = {}
    /\ created = 0
    /\ last = NoCall
    /\ prev = NoCall
    /\ recording = FALSE
    /\ peer = NoDb
    /\ svc = [c \in Callers |-> Returned]

\* the data calls made through the facade
FacadeDataCall ==
    \/ getAllCollections
    \/ createDocument(DocPath, [title |-> <<97>>], FALSE)
    \/ \E id \in AutoIds : getDocument(DocPath, id)

NextFacade ==
    \/ FacadeDataCall
    \/ \E c \in Callers, config \in Configs, initFails \in BOOLEAN :
            connect(c, config, initFails)
    \/ \E c \in Callers : disconnect(c)
    \/ \E c \in Callers : signOutSettles(c)
    \/ \E c \in Callers, rejected \in BOOLEAN : deleteAppSettles(c, rejected)
    \/ \E c \in Callers, initFails \in BOOLEAN : connectAfterDisconnect(c, initFails)
    \/ \E c \in Callers : signInSettles(c)

SpecFacade == InitFacade /\ [][NextFacade]_vars

----------------------------------------------------------------------------
(* Two facade instances in one process: the first facade's callers and    *)
(* data calls, and the second instance connecting and disconnecting       *)

NextPeer ==
    \/ FacadeDataCall
    \/ \E c \in Callers, config \in Configs, initFails \in BOOLEAN :
            connect(c, config, initFails)
    \/ \E c \in Callers : disconnect(c)
    \/ \E c \in Callers : signOutSettles(c)
    \/ \E c \in Callers, rejected \in BOOLEAN : deleteAppSettles(c, rejected)
    \/ \E c \in Callers, initFails \in BOOLEAN : connectAfterDisconnect(c, initFails)
    \/ \E c \in Callers : signInSettles(c)
    \/ peerConnect
    \/ \E rejected \in BOOLEAN : peerDisconnect(rejected)

SpecPeer == InitFacade /\ [][NextPeer]_vars

----------------------------------------------------------------------------
(* updateDocument calls of several callers on one collection, interleaved  *)
(* at their awaits, the clock running                                      *)

NextUpdateOverlap ==
    \/ Cardinality(store) < MaxWritten
            /\ createDocument(DocPath, [title |-> <<97>>], FALSE)
    \/ \E c \in Callers, d \in DocsAt(store, DocPath), title \in {<<98>>, <<99>>} :
            updateDocumentCalls(c, DocPath, d.id, [title |-> title])
    \/ \E c \in Callers : updateDocumentWritten(c)
    \/ \E c \in Callers : updateDocumentRead(c)
    \/ Tick

SpecUpdateOverlap == InitUpdate /\ [][NextUpdateOverlap]_vars

----------------------------------------------------------------------------
(* Connecting, on both backends: the facade's connect and disconnect step  *)
(* by step and MongoDBService.connect                                      *)

NextConnect ==
    \/ \E c \in Callers, config \in Configs, initFails \in BOOLEAN :
            connect(c, config, initFails)
    \/ \E c \in Callers : disconnect(c)
    \/ \E c \in Callers : signOutSettles(c)
    \/ \E c \in Callers, rejected \in BOOLEAN : deleteAppSettles(c, rejected)
    \/ \E c \in Callers, initFails \in BOOLEAN : connectAfterDisconnect(c, initFails)
    \/ \E c \in Callers : signInSettles(c)
    \/ \E config \in MongoConfigs, connectFails \in BOOLEAN :
            MongoConnect(config, connectFails)

SpecConnect == InitFacade /\ [][NextConnect]_vars

----------------------------------------------------------------------------
(* The facade's connect and disconnect calls under the event loop: every   *)
(* awaited backend call settles and the continuation of a settled await    *)
(* is run                                                                  *)

NextFlag ==
    \/ \E c \in Callers, config \in Configs, initFails \in BOOLEAN :
            connect(c, config, initFails)
    \/ \E c \in Callers : disconnect(c)
    \/ \E c \in Callers : signOutSettles(c)
    \/ \E c \in Callers, rejected \in BOOLEAN : deleteAppSettles(c, rejected)
    \/ \E c \in Callers, initFails \in BOOLEAN : connectAfterDisconnect(c, initFails)
    \/ \E c \in Callers : signInSettles(c)

Settles(c) ==
    \/ signOutSettles(c)
    \/ \E rejected \in BOOLEAN : deleteAppSettles(c, rejected)
    \/ \E initFails \in BOOLEAN : connectAfterDisconnect(c, initFails)
    \/ signInSettles(c)

SpecFlag ==
    /\ InitFacade
    /\ [][NextFlag]_vars
    /\ \A c \in Callers : WF_vars(Settles(c))

----------------------------------------------------------------------------
(* Claims about the catalog *)

\* lower-cased and trimmed, as the data model defines a normalized name
Canon(name) == Trim(ToLowerCase(name))

DefinitionsNamed(st, name) ==
    {d \in st : d.path = COLLECTIONS_PATH /\ Canon(d.data.name) = Canon(name)}

\* the data model's invariant on names: stored normalized, unique
NamesNormalizedAndUnique(st) ==
    \A d \in DocsAt(st, COLLECTIONS_PATH) :
        /\ d.data.name = Canon(d.data.name)
        /\ DefinitionsNamed(st, d.data.name) = {d}

\* C1: a completed createCollection that directly follows a completed
\* createCollection of the same normalized name returns the same logical id and
\* leaves the catalog as it was; and a completed createCollection on a catalog
\* whose names are normalized and unique leaves exactly one definition of that
\* normalized name, the one whose logical id it returns.
C1_IdempotentCreate ==
    [][(last'.op = "createCollection" /\ last'.err = "ok") =>
        /\ (last.op = "createCollection" /\ last.err = "ok"
                /\ Canon(last.in) = Canon(last'.in))
            => (last'.out.def.id = last.out.def.id /\ store' = store)
        /\ NamesNormalizedAndUnique(store)
            => /\ NamesNormalizedAndUnique(store')
               /\ Cardinality(DefinitionsNamed(store', last'.in)) = 1
               /\ \A d \in DefinitionsNamed(store', last'.in) :
                     d.data.id = last'.out.def.id
    ]_vars

\* a create under another casing and padding of a stored name returned the one
\* stored definition
C1_Witness ==
    /\ last.op = "createCollection"
    /\ last.err = "ok"
    /\ last.out.existed
    /\ last.in # Canon(last.in)
    /\ Cardinality(DefinitionsNamed(store, last.in)) = 1

\* C2: when deleteCollection has completed, the definition is no longer listed
\* and the data space of the deleted definition holds no document.
C2_DeleteCascades ==
    (last.op = "deleteCollection" /\ last.err = "ok") =>
        /\ \A c \in {DefinitionView(d) : d \in Definitions(store)} :
              c.fid # last.in
        /\ DocsAt(store, last.out.id) = {}

\* a delete that found documents in the data space
C2_Witness ==
    /\ last.op = "deleteCollection"
    /\ last.err = "ok"
    /\ last.out.scanned >= 1

\* C8: no two stored definitions have the same normalized name.
C8_NamesUnique ==
    \A d1, d2 \in DocsAt(store, COLLECTIONS_PATH) :
        Canon(d1.data.name) = Canon(d2.data.name) => d1 = d2

\* C9: getCollection called with a logical id returns the definition of that
\* logical id, and fails with NotFound exactly when no stored definition has it.
C9_GetByLogicalId ==
    (last.op = "getCollection" /\ last.err # "NotConnected") =>
        LET having == {d \in DocsAt(store, COLLECTIONS_PATH) : d.data.id = last.in}
        IN /\ (last.err = "NotFound") <=> (having = {})
           /\ last.err = "ok" => last.out.id = last.in

\* C17: a deleteCollection call on a stored definition removes the definition
\* and the documents it scanned in its data space together or not at all: a
\* failed commit leaves all of them stored, a completed one none of them.
C17_DeleteAtomic ==
    [][\A id \in KnownCollectionIds(store), commitFails \in BOOLEAN :
        (/\ last'.op = "deleteCollection" /\ last'.in = id
         /\ Snap(store, COLLECTIONS_PATH, id) # {}
         /\ deleteCollection(id, commitFails))
        => LET collectionDoc == Snap(store, COLLECTIONS_PATH, id)
               scanned == DocsAt(store, (CHOOSE d \in collectionDoc : TRUE).data.id)
           IN /\ collectionDoc \subseteq store' => scanned \subseteq store'
              /\ collectionDoc \cap store' = {} => scanned \cap store' = {}
              /\ last'.err = "ok" => collectionDoc \cap store' = {}
              /\ last'.err # "ok" => store' = store]_vars

\* a delete whose commit failed: the definition and a document of its data
\* space are both still stored
C17_Witness ==
    /\ last.op = "deleteCollection" /\ last.err = "BackendFailure"
    /\ \E d \in Snap(store, COLLECTIONS_PATH, last.in) :
            DocsAt(store, d.data.id) # {}

\* C28: when a deleteCollection call has just returned without error, no
\* document is stored under the data space of the collection it deleted,
\* whatever createDocument calls completed while it was in progress.
C28_DeleteLeavesNoDocument ==
    (last.op = "deleteCollection" /\ last.err = "ok")
        => DocsAt(store, last.out.id) = {}

\* C18: a createCollection call with seed documents for a name not yet in
\* the catalog never leaves a seed document without the definition; when the
\* definition cannot be written nothing is stored; when the seed batch fails
\* the call fails, the definition is stored and no seed document is; when
\* nothing fails the definition and every seed document are stored.
C18_DefinitionBeforeSeeds ==
    [][\A name \in Names, mockData \in SeedInputs, failAt \in CreateFailures :
        (/\ last'.op = "createCollection" /\ last'.in = name
         /\ mockData # <<>>
         /\ DefinitionsNamed(store, name) = {}
         /\ createCollection([name |-> name], mockData, failAt))
        => LET newDefs == DocsAt(store', COLLECTIONS_PATH) \ store
               newDocs == (store' \ store) \ newDefs
           IN /\ store \subseteq store'
              /\ newDocs # {} => newDefs # {}
              /\ failAt = "setDoc" => (last'.err # "ok" /\ store' = store)
              /\ failAt = "commit"
                    => /\ last'.err = "BackendFailure"
                       /\ newDefs = DefinitionsNamed(store', name)
                       /\ Cardinality(newDefs) = 1
                       /\ newDocs = {}
              /\ failAt = "none"
                    => /\ last'.err = "ok"
                       /\ Cardinality(newDefs) = 1
                       /\ Cardinality(newDocs) = Len(mockData)
                       /\ \A d \in newDocs, c \in newDefs : d.path = c.data.id]_vars

\* a create whose seed batch failed: the definition is in the catalog and
\* its data space is empty
C18_Witness ==
    /\ last.op = "createCollection" /\ last.err = "BackendFailure"
    /\ \E d \in DefinitionsNamed(store, last.in) : DocsAt(store, d.data.id) = {}

\* C24: an updateCollection call leaves the logical id of every stored
\* definition as it was, and returns the definition under the logical id it
\* had before the call.
C24_LogicalIdStable ==
    [][UpdateCollectionCall
        => /\ \A d \in Definitions(store), e \in Definitions(store') :
                d.id = e.id => e.data.id = d.data.id
           /\ last'.err = "ok"
                => \E d \in Snap(store, COLLECTIONS_PATH, last'.in.id) :
                        last'.out.id = d.data.id]_vars

\* C22: whenever no createCollection call is in progress the catalog holds
\* at most one definition of each normalized name, and two createCollection
\* calls for the same normalized name that both return a definition return
\* the same logical id.
C22_OverlappingCreate ==
    /\ (\A c \in Callers : svc[c] = Returned)
            => \A d1, d2 \in DocsAt(store, COLLECTIONS_PATH) :
                    Canon(d1.data.name) = Canon(d2.data.name) => d1 = d2
    /\ (/\ last.op = "createCollection" /\ last.err = "ok"
        /\ prev.op = "createCollection" /\ prev.err = "ok"
        /\ Canon(last.in) = Canon(prev.in))
            => last.out.def.id = prev.out.def.id

----------------------------------------------------------------------------
(* Claims about the document store *)

\* the fields the store writes itself
StampedFields == {"fid", "createdAt", "updatedAt"}

\* a completed createDocument directly followed by a completed getDocument of
\* the identity it returned
CreateThenGet ==
    /\ prev.op = "createDocument" /\ prev.err = "ok"
    /\ last.op = "getDocument" /\ last.err = "ok"
    /\ last.in = [collectionId |-> prev.in.collectionId,
                  documentId |-> prev.out.fid]

\* the document read back has every field of the input with the input's value
\* and nothing else but the stamped fields
ReadsBack(input, out) ==
    /\ out # {}
    /\ \A doc \in out :
        /\ \A k \in DOMAIN input : k \in DOMAIN doc /\ doc[k] = input[k]
        /\ DOMAIN doc = DOMAIN input \cup StampedFields

----------------------------------------------------------------------------
(* Claims about the facade *)

\* a connect call that has passed the in-progress guard and not yet ended
ConnectCalls == {c \in Callers : pc[c].call = "connect"}

\* C6: a data call made through the facade while the facade holds no session
\* and no connect call is in progress (before any connect, or after a disconnect
\* has completed and until a connect sets the session again) fails with
\* NotConnected.
C6_NotConnectedAfterDisconnect ==
    [][(app = NoDb /\ db = NoDb /\ ConnectCalls = {} /\ FacadeDataCall)
            => last'.err = "NotConnected"]_vars

\* C7: a connect call made while another connect call is in progress returns
\* at once, without error and leaving app, db, auth, the services' handles and
\* the set of sessions as they were; and at no time are two connect calls past
\* the guard.
C7_OverlappingConnectSkipped ==
    /\ [](Cardinality(ConnectCalls) <= 1)
    /\ [][\A c \in Callers :
            (ConnectCalls # {} /\ pc[c] = Idle
                /\ \E config \in Configs, initFails \in BOOLEAN :
                        connect(c, config, initFails))
            => /\ last'.op = "connect" /\ last'.err = "ok"
               /\ last'.out.session = "skipped"
               /\ pc' = pc
               /\ <<app, db, auth, live, created, colDb, docDb>>'
                    = <<app, db, auth, live, created, colDb, docDb>>]_vars

C7_Witness ==
    /\ last.op = "connect" /\ last.err = "ok"
    /\ last.out.session = "skipped"
    /\ \E c \in Callers : pc[c].call = "connect" /\ pc[c].at = "signIn"
    /\ app # NoDb

\* the facade's session state and MongoDBService's
SessionState == <<app, db, auth, live, created, colDb, docDb, pc, mongoDb>>

\* a connect call of caller c whose credentials lack the project id
ConnectWithoutProjectId(c) ==
    /\ pc[c] = Idle
    /\ \E config \in Configs, initFails \in BOOLEAN :
            ~config.projectId /\ connect(c, config, initFails)

\* a MongoDBService.connect call whose credentials lack the URI
MongoConnectWithoutUri ==
    \E connectFails \in BOOLEAN : MongoConnect([uri |-> FALSE], connectFails)

\* C20 as stated: a connect call whose credentials lack the required field
\* fails with InvalidCredentials in whatever state it is made, and leaves the
\* session state and the connect-in-progress flag unchanged.
C20_InvalidCredentialsAnyState ==
    [][((\E c \in Callers : ConnectWithoutProjectId(c)) \/ MongoConnectWithoutUri)
        => /\ last'.err = "InvalidCredentials"
           /\ SessionState' = SessionState
           /\ isConnecting' = isConnecting]_vars

\* C20: a connect call whose credentials lack the required field leaves the
\* session state and the connect-in-progress flag unchanged; it fails with
\* InvalidCredentials unless it is a facade connect made while a connect is
\* in progress, which returns at once without error.
C20_InvalidCredentials ==
    [][((\E c \in Callers : ConnectWithoutProjectId(c)) \/ MongoConnectWithoutUri)
        => /\ SessionState' = SessionState
           /\ isConnecting' = isConnecting
           /\ IF last'.op = "connect" /\ isConnecting
              THEN last'.err = "ok" /\ last'.out.session = "skipped"
              ELSE last'.err = "InvalidCredentials"]_vars

\* a connect without project id rejected while a session is held
C20_Witness ==
    /\ last.op = "connect" /\ last.err = "InvalidCredentials"
    /\ app # NoDb /\ db # NoDb
    /\ ~isConnecting

\* a connect call returns to its caller with an error
ConnectThrows ==
    /\ \E c \in Callers :
            /\ pc'[c] = Idle
            /\ \/ \E config \in Configs, initFails \in BOOLEAN :
                        connect(c, config, initFails)
               \/ \E initFails \in BOOLEAN : connectAfterDisconnect(c, initFails)
               \/ signInSettles(c)
    /\ last'.op = "connect"
    /\ last'.err # "ok"

\* C21: a connect call that throws on a facade whose services were never
\* given a session leaves the facade without app and db and the collection
\* and document services without a session; and a data call made while the
\* services have no session fails with NotConnected.
C21_FailedConnectBindsNothing ==
    [][/\ (ConnectThrows /\ colDb = NoDb /\ docDb = NoDb)
            => (app' = NoDb /\ db' = NoDb /\ colDb' = NoDb /\ docDb' = NoDb)
       /\ (FacadeDataCall /\ colDb = NoDb /\ docDb = NoDb)
            => last'.err = "NotConnected"]_vars

\* C26: when the last call that returned is a connect that bound a session,
\* and a disconnect call that began on an earlier session is still awaiting
\* deleteApp of that earlier session, the end of that disconnect leaves the
\* facade holding the session the connect created.
C26_DisconnectOwnSession ==
    [][\A c \in Callers, rejected \in BOOLEAN :
        (/\ pc[c].call = "disconnect" /\ pc[c].at = "deleteApp"
         /\ last.op = "connect" /\ last.err = "ok"
         /\ last.out.session = "connected"
         /\ app # NoDb /\ app # pc[c].arg
         /\ deleteAppSettles(c, rejected))
        => (app' = app /\ db' = db /\ app' # NoDb /\ db' # NoDb)]_vars

\* C30: the connect-in-progress flag is set only while a connect call is in
\* progress, and whenever it is set it is reset later: no connect call made
\* after the earlier ones have returned finds it set.
C30_FlagReleased ==
    /\ [](ConnectCalls = {} => ~isConnecting)
    /\ (isConnecting ~> ~isConnecting)

\* a connect with an apiKey that held the flag over its sign-in and then
\* threw while initializing the services has returned, and the flag is
\* released
C30_Witness ==
    /\ last.op = "connect" /\ last.err = "BackendFailure"
    /\ last.in.apiKey /\ app # NoDb /\ auth = app
    /\ ConnectCalls = {} /\ ~isConnecting

\* C27: a connect or disconnect of another facade instance, made while this
\* facade holds a session that its collection and document services are bound
\* to, leaves both services bound to this facade's session.
C27_OwnSessionOnly ==
    [][(/\ peer' # peer
        /\ app # NoDb /\ db = app /\ colDb = db /\ docDb = db)
       => (colDb' = db' /\ docDb' = db' /\ db' = db)]_vars

----------------------------------------------------------------------------
(* Claims about the batch engine *)

\* C29: within one collection no two stored documents carry the same
\* identity, on either backend: the Firestore documents of a path have
\* pairwise different fid, the MongoDB documents of a collection pairwise
\* different id.
C29_DistinctIdentities ==
    /\ \A d, e \in store :
            (d.path = e.path /\ d.data.fid = e.data.fid) => d = e
    /\ \A i, j \in 1..Len(mongo) :
            (mongo[i].coll = mongo[j].coll /\ mongo[i].doc.id = mongo[j].doc.id)
                => i = j

\* C3: a batchCreateDocuments call that the backend rejects, on either backend,
\* reports failure and leaves the collection without any document of the
\* batch: the stored documents are those stored before the call.
C3_BatchAllOrNothing ==
    [][((FirestoreBatchCall \/ MongoBatchCall) /\ last'.err = "BackendFailure")
            => (store' = store /\ mongo' = mongo)]_vars

----------------------------------------------------------------------------
(* Claims about overlapping document calls *)

\* C25: no step of overlapping updateDocument calls moves the stored
\* updatedAt of a document backwards.
C25_UpdatedAtNeverDecreases ==
    [][\A d \in DocsAt(store, DocPath), e \in DocsAt(store', DocPath) :
            d.id = e.id => e.data.updatedAt >= d.data.updatedAt]_vars

----------------------------------------------------------------------------
(* Claims about the query translator and the search engine *)

\* the ordered match list of the query that was made: what the backend
\* returns for its where and orderBy clauses without limit and offset
MatchList ==
    IF last.op = "queryDocuments"
    THEN DataOf(FsGetDocs(store, last.in.collectionId,
                          Param(last.in.queryParams, "where", <<>>),
                          Param(last.in.queryParams, "orderBy", <<>>)))
    ELSE MongoFind(last.in.collectionId,
                   Param(last.in.queryParams, "where", <<>>),
                   Param(last.in.queryParams, "orderBy", <<>>))

\* a query for one page: limit L >= 1 at an offset that is a multiple of L
PageQuery ==
    /\ last.op \in {"queryDocuments", "mongo.queryDocuments"}
    /\ last.err # "NotConnected"
    /\ "limit" \in DOMAIN last.in.queryParams
    /\ last.in.queryParams.limit >= 1
    /\ Param(last.in.queryParams, "offset", 0) % last.in.queryParams.limit = 0

\* C4: a query with limit L at an offset that is a multiple of L, on a
\* collection with N matching documents (N > 0, or the offset is 0), returns
\* the documents of the ordered match list from position offset + 1 to
\* offset + L, or to N where fewer than L remain: the pages at offsets 0, L,
\* 2L, ... are consecutive and do not overlap; total is N, and hasMore tells
\* that the page has L documents.
C4_Pagination ==
    (PageQuery /\ (Len(MatchList) > 0 \/ Param(last.in.queryParams, "offset", 0) = 0))
        => LET L == last.in.queryParams.limit
               O == Param(last.in.queryParams, "offset", 0)
               N == Len(MatchList)
           IN /\ last.err = "ok"
              /\ last.out.data = SubSeq(MatchList, O + 1, Min(O + L, N))
              /\ Len(last.out.data) = (IF N - O >= L THEN L
                                       ELSE IF N > O THEN N - O ELSE 0)
              /\ last.out.total = N
              /\ last.out.hasMore = (N - O >= L)

\* five matching documents, limit 2, offset 4: the last page, of one document
C4_Witness ==
    /\ PageQuery
    /\ last.op = "queryDocuments" /\ last.err = "ok"
    /\ last.in.queryParams.limit = 2
    /\ Param(last.in.queryParams, "offset", 0) = 4
    /\ last.out.total = 5
    /\ Len(last.out.data) = 1
    /\ ~last.out.hasMore

\* the documents of the searched collection whose value of some requested
\* field lies in the prefix range of the search text
InPrefixRange ==
    {d \in DocsAt(store, last.in.collectionId) :
        \E i \in 1..Len(last.in.fields) :
            /\ last.in.fields[i] \in DOMAIN d.data
            /\ StrLeq(last.in.searchText, d.data[last.in.fields[i]])
            /\ StrLeq(d.data[last.in.fields[i]],
                      last.in.searchText \o <<HIGH_CODE_POINT>>)}

\* C5: in the result of a searchDocuments call no document identity occurs
\* twice, every document returned lies in the prefix range on some requested
\* field, and total is the number of distinct documents that do.
C5_SearchDedup ==
    (last.op = "searchDocuments" /\ last.err = "ok")
        => /\ \A i, j \in 1..Len(last.out.data) :
                last.out.data[i].fid = last.out.data[j].fid => i = j
           /\ \A i \in 1..Len(last.out.data) :
                \E d \in InPrefixRange : d.data = last.out.data[i]
           /\ last.out.total = Cardinality(InPrefixRange)
           /\ last.in.page = 1 /\ last.in.pageSize >= last.out.total
                => Len(last.out.data) = Cardinality(InPrefixRange)

\* a document in the range on two requested fields, next to another match
C5_Witness ==
    /\ last.op = "searchDocuments" /\ last.err = "ok"
    /\ \E d \in InPrefixRange :
            Cardinality({i \in 1..Len(last.in.fields) :
                /\ last.in.fields[i] \in DOMAIN d.data
                /\ StrLeq(last.in.searchText, d.data[last.in.fields[i]])
                /\ StrLeq(d.data[last.in.fields[i]],
                          last.in.searchText \o <<HIGH_CODE_POINT>>)}) = 2
    /\ last.out.total >= 2
    /\ Len(last.out.data) = last.out.total

\* C14: in the answer of a queryDocuments call of either backend, hasMore is
\* true exactly when limit is set and the page holds limit documents; without
\* a limit hasMore is false however many documents match.
C14_HasMore ==
    (last.op \in {"queryDocuments", "mongo.queryDocuments"} /\ last.err = "ok")
        => /\ last.out.hasMore
                = (/\ "limit" \in DOMAIN last.in.queryParams
                   /\ Len(last.out.data) = last.in.queryParams.limit)
           /\ "limit" \notin DOMAIN last.in.queryParams => ~last.out.hasMore

\* a full page of two under limit 2
C14_Witness ==
    /\ last.op \in {"queryDocuments", "mongo.queryDocuments"} /\ last.err = "ok"
    /\ "limit" \in DOMAIN last.in.queryParams
    /\ last.in.queryParams.limit = 2
    /\ Len(last.out.data) = 2
    /\ last.out.total > 2
    /\ last.out.hasMore

\* C15: a queryDocuments call whose offset is greater than the number of
\* matching documents, none matching included, succeeds with an empty page
\* and hasMore false.
C15_OffsetBeyondTotal ==
    (/\ last.op = "queryDocuments"
     /\ last.err # "NotConnected"
     /\ Param(last.in.queryParams, "offset", 0) > Len(MatchList))
        => /\ last.err = "ok"
           /\ last.out.data = <<>>
           /\ ~last.out.hasMore

\* the deduplicated list the search that was made pages through
SearchList ==
    UniqueDocs(AllDocs(store, last.in.collectionId, last.in.searchText,
                       last.in.fields))

\* pages p, p + 1, ... read one after the other until hasMore is false
RECURSIVE ReadPages(_, _, _)
ReadPages(uniqueDocs, page, pageSize) ==
    PaginatedDocs(uniqueDocs, page, pageSize)
        \o (IF SearchHasMore(page, pageSize, Len(uniqueDocs))
            THEN ReadPages(uniqueDocs, page + 1, pageSize)
            ELSE <<>>)

\* C16: a searchDocuments call for page p of size n returns the documents of
\* the deduplicated list at positions (p-1)*n + 1 .. (p-1)*n + n that exist,
\* hasMore is true exactly when (p-1)*n + n < total, and the pages read from
\* page 1 until hasMore is false make up the deduplicated list, each document
\* once.
C16_SearchPagination ==
    (last.op = "searchDocuments" /\ last.err = "ok")
        => LET n == last.in.pageSize
               first == (last.in.page - 1) * n
               total == Len(SearchList)
               count == IF total - first >= n THEN n
                        ELSE IF total > first THEN total - first ELSE 0
           IN /\ Len(last.out.data) = count
              /\ \A k \in 1..count : last.out.data[k] = SearchList[first + k].data
              /\ last.out.total = total
              /\ last.out.hasMore = (first + n < total)
              /\ ReadPages(SearchList, 1, n) = SearchList

\* five documents found, page 3 of size 2: the last page, of one document
C16_Witness ==
    /\ last.op = "searchDocuments" /\ last.err = "ok"
    /\ last.in.page = 3 /\ last.in.pageSize = 2
    /\ last.out.total = 5
    /\ Len(last.out.data) = 1
    /\ ~last.out.hasMore

\* a document satisfies a where triple, as the query specification defines
\* the operators
Satisfies(data, w) ==
    /\ w.field \in DOMAIN data
    /\ \/ w.op = "eq" /\ data[w.field] = w.value
       \/ w.op = "gt" /\ data[w.field] # w.value /\ StrLeq(w.value, data[w.field])
       \/ w.op = "lt" /\ data[w.field] # w.value /\ StrLeq(data[w.field], w.value)
       \/ w.op = "contains" /\ StrLeq(w.value, data[w.field])
                            /\ StrLeq(data[w.field], w.value \o <<HIGH_CODE_POINT>>)

\* the stored documents of the queried backend that satisfy every triple
SatisfyingAll ==
    LET where == Param(last.in.queryParams, "where", <<>>)
    IN IF last.op = "queryDocuments"
       THEN Cardinality({d \in DocsAt(store, last.in.collectionId) :
                \A k \in 1..Len(where) : Satisfies(d.data, where[k])})
       ELSE Cardinality({i \in 1..Len(mongo) :
                /\ mongo[i].coll = last.in.collectionId
                /\ \A k \in 1..Len(where) : Satisfies(mongo[i].doc, where[k])})

\* C23: every document a queryDocuments call of either backend returns
\* satisfies every where triple of the query, and total is the number of
\* stored documents that satisfy all of them (stated for the queries that
\* have no orderBy clause).
C23_WhereConjunction ==
    (/\ last.op \in {"queryDocuments", "mongo.queryDocuments"} /\ last.err = "ok"
     /\ "orderBy" \notin DOMAIN last.in.queryParams)
        => LET where == Param(last.in.queryParams, "where", <<>>)
           IN /\ \A i \in 1..Len(last.out.data), k \in 1..Len(where) :
                    Satisfies(last.out.data[i], where[k])
              /\ last.out.total = SatisfyingAll

----------------------------------------------------------------------------
(* Claims about the document store's writes *)

\* an update or updateMany call that changed the stored documents
UpdateCall ==
    \/ \E id \in AutoIds, data \in Patches : updateDocument(DocPath, id, data)
    \/ BatchUpdateCall

\* the documents a completed update call was addressed to
Addressed(d) ==
    /\ last'.err = "ok"
    /\ IF last'.op = "updateDocument" THEN d.id = last'.in.documentId
       ELSE \E i \in 1..Len(last'.in.documents) : d.id = last'.in.documents[i].id

\* C11: every stored document has updatedAt >= createdAt, and a completed
\* update or updateMany call leaves each document it was addressed to with an
\* updatedAt strictly greater than before.
C11_TimestampsMonotonic ==
    /\ [](\A d \in DocsAt(store, DocPath) : d.data.updatedAt >= d.data.createdAt)
    /\ [][UpdateCall =>
            \A d \in DocsAt(store, DocPath), e \in DocsAt(store', DocPath) :
                (d.id = e.id /\ Addressed(d))
                    => e.data.updatedAt > d.data.updatedAt]_vars

\* C12: the identity stored in a document is the reference it was created
\* under, and a completed update returns that reference as the identity.
C12_IdentityImmutable ==
    /\ \A d \in DocsAt(store, DocPath) : d.data.fid = d.id
    /\ (last.op = "updateDocument" /\ last.err = "ok")
            => last.out.fid = last.in.documentId

\* C13: no update or updateMany call changes the createdAt of a stored
\* document.
C13_CreatedAtSetOnce ==
    [][UpdateCall =>
        \A d \in DocsAt(store, DocPath), e \in DocsAt(store', DocPath) :
            d.id = e.id => e.data.createdAt = d.data.createdAt]_vars

\* C19: an updateMany call with an id that names no stored document fails and
\* leaves every stored document as it was.
C19_BatchUpdateAllOrNothing ==
    [][\A documents \in BatchPatches, commitFails \in BOOLEAN :
        (/\ last'.op = "batchUpdateDocuments" /\ last'.in.documents = documents
         /\ \E i \in 1..Len(documents) : Snap(store, DocPath, documents[i].id) = {}
         /\ batchUpdateDocuments(DocPath, documents, commitFails))
        => (last'.err # "ok" /\ store' = store)]_vars

\* a batch naming a stored and a missing document was rejected as NotFound
C19_Witness ==
    /\ last.op = "batchUpdateDocuments" /\ last.err = "NotFound"
    /\ \E i, j \in 1..Len(last.in.documents) :
            /\ Snap(store, DocPath, last.in.documents[i].id) # {}
            /\ Snap(store, DocPath, last.in.documents[j].id) = {}
    /\ \A d \in DocsAt(store, DocPath) : d.data.title = <<97>>

====
